---- MODULE Spec2Model ----
(***************************************************************************)
(* VoiceMemo-Assistant: the summarizer (LLMHandler.summarize), the record  *)
(* store (Database), the delete resolver (TelegramBot.on_delete_command),  *)
(* the voice ingestion pipeline (TelegramBot.on_voice) and the edit dialog *)
(* (on_reply_to_summary_for_edit and the edit, note and cancel callbacks). *)
(*                                                                         *)
(* The repository holds the package src/bot (aiogram), the handler variant *)
(* src/voice_memo_assistant/bot (python-telegram-bot) and the single-file  *)
(* script src/telegram_voice_daily_sum_bot.py.py.  The variable impl says  *)
(* which one is running: "bot", "ptb" or "legacy".                         *)
(*                                                                         *)
(* Strings whose content is never inspected are kept as a record           *)
(* [kind, core, pad]: core characters surrounded by pad whitespace         *)
(* characters.  Strings that the code parses (the delete command text and  *)
(* the replied-to text) are sequences of characters.                       *)
(***************************************************************************)
EXTENDS Integers, Sequences, FiniteSets, TLC

VARIABLES
    impl,   \* which program runs: "bot", "ptb" or "legacy"
    cfg,    \* SUMMARY_DEVIATION_PERCENT, SUMMARY_MAX_TRIES, USE_LOCAL_LLM
    llm,    \* the locals of the running call of LLMHandler.summarize
    db,     \* the rows of table voice_messages
    seq,    \* sqlite_sequence.seq of voice_messages (AUTOINCREMENT)
    saved,  \* history: the ids save_message has returned, per telegram_file_id
    clock,  \* the wall clock, in seconds
    voice,  \* the runs of on_voice: position and locals of each
    ev,     \* the last event: the handler run (or the Database method called
            \* directly), its input and its answer
    fsm,    \* the dialog states kept per (chat, user): the entries of aiogram's
            \* FSM storage, or of ConversationHandler's conversations
    pending,\* the dialog data: the entries of the FSM storage data, or of
            \* python-telegram-bot's user_data
    cb,     \* the callback handlers in flight: position and event of each
    hist    \* history: how the latest dialog of each (chat, user) stands
            \* ("open", "expired", "applied" once an edit or note is written,
            \* "closed") and the values its entry captured

botVars == <<clock, voice>>

dlgVars == <<fsm, pending, cb, hist>>

vars == <<impl, cfg, llm, db, seq, saved, clock, voice, ev, fsm, pending, cb, hist>>

----------------------------------------------------------------------------
(* Bounds of the exploration *)

MaxTriesCfg == 2

MaxSeq == 3

MaxClock == 2

----------------------------------------------------------------------------
(* Program constants *)

ShortTextLimit == 500

DefaultMinLen == 150

DefaultMaxLen == 250

MinRatio == 5

MaxRatio == 3

DefaultDeviation == 20

DefaultMaxTries == 2

ApologyLen == 58

----------------------------------------------------------------------------
(* Inputs *)

Impls == {"bot", "legacy"}

(* The two handler variants of the package: src/bot (aiogram) and          *)
(* src/voice_memo_assistant/bot (python-telegram-bot)                       *)
DialogImpls == {"bot", "ptb"}

TextLens == {100, 499, 500, 3000}

OutLens == {119, 120, 300, 301, 1200, 1201}

Pads == {0, 2}

Deviations == {DefaultDeviation, 100}

TriesCfgs == 0..MaxTriesCfg

(* Inputs at the edges: tolerances from 0 to 100 percent, the empty text,  *)
(* the lengths where the bounds change (500, 750), and the window of a     *)
(* 600-character text when SUMMARY_DEVIATION_PERCENT is set to 15          *)
WindowDeviations == {0, 15, DefaultDeviation, 100}

WindowTextLens == {0, 100, 500, 600, 750}

WindowOutLens == {119, 120, 127, 128, 230, 231, 300, 301}

Max(a, b) == IF a >= b THEN a ELSE b

----------------------------------------------------------------------------
(* Strings as [kind, core, pad] *)

Text(k, n) == [kind |-> k, core |-> n, pad |-> 0]

StrLen(s) == s.core + s.pad

Strip(s) == [s EXCEPT !.pad = 0]

Apology == Text("apology", ApologyLen)

NoText == Text("none", 0)

(* What the generation backend does on one call: a reply body, or a          *)
(* timeout / transport fault.                                                *)
BackendOutcomes ==
    {[fault |-> FALSE, body |-> [kind |-> "gen", core |-> c, pad |-> p]] :
        c \in OutLens, p \in Pads}
    \cup {[fault |-> TRUE, body |-> NoText]}

----------------------------------------------------------------------------
(* LLMHandler *)

(* The result of a call: a returned string, or an exception. *)
Returned(s) == [raised |-> FALSE, value |-> s]

Raised == [raised |-> TRUE, value |-> NoText]

(* Mutant: the package's _ollama_call without its except clause *)
OllamaCallNoCatch(im, out) ==
    IF out.fault THEN Raised ELSE Returned(Strip(out.body))

OllamaCall(im, out) ==
    IF out.fault
    THEN IF im = "bot" THEN Returned(Apology) ELSE Raised
    ELSE Returned(Strip(out.body))

(* Mutant: the package's _openai_call without its except clause *)
OpenaiCallNoCatch(im, out) ==
    IF out.fault THEN Raised ELSE Returned(Strip(out.body))

OpenaiCall(im, out) ==
    IF out.fault
    THEN IF im = "bot" THEN Returned(Apology) ELSE Raised
    ELSE Returned(Strip(out.body))

(* Mutant: _generate with backend calls that let a fault out *)
GenerateNoCatch(im, useLocal, out) ==
    IF out.fault THEN Raised ELSE Returned(Strip(out.body))

Generate(im, useLocal, out) ==
    LET r == IF useLocal THEN OllamaCall(im, out) ELSE OpenaiCall(im, out)
    IN  IF r.raised THEN r ELSE Returned(Strip(r.value))

(* Mutant: min_len without the floor of 150 *)
MinLenNoFloor(n) == IF n < ShortTextLimit THEN DefaultMinLen ELSE n \div MinRatio

MinLen(n) == IF n < ShortTextLimit THEN DefaultMinLen ELSE Max(DefaultMinLen, n \div MinRatio)

(* Mutant: max_len as a third of the length for short texts as well *)
MaxLenOfRatio(n) == n \div MaxRatio

MaxLen(n) == IF n < ShortTextLimit THEN DefaultMaxLen ELSE n \div MaxRatio

(* Python floats.  A binary number is [b, f]: the bits b, most significant *)
(* first, the last f of them after the binary point.                       *)
FloatPrecision == 53

StripZeros(b) ==
    IF \A i \in 1..Len(b) : b[i] = 0 THEN <<>>
    ELSE SubSeq(b, CHOOSE i \in 1..Len(b) : b[i] = 1 /\ \A j \in 1..(i - 1) : b[j] = 0,
                Len(b))

Zeros(n) == [i \in 1..n |-> 0]

RECURSIVE BitsToNat(_)
BitsToNat(b) == IF b = <<>> THEN 0 ELSE 2 * BitsToNat(SubSeq(b, 1, Len(b) - 1)) + b[Len(b)]

(* The bits of a natural number *)
RECURSIVE NatToBits(_)
NatToBits(n) == IF n = 0 THEN <<>> ELSE NatToBits(n \div 2) \o <<n % 2>>

(* b + 1 *)
Increment(b) ==
    LET zs == {i \in 1..Len(b) : b[i] = 0}
    IN  IF zs = {} THEN <<1>> \o Zeros(Len(b))
        ELSE LET k == CHOOSE i \in zs : \A j \in zs : j <= i
             IN  SubSeq(b, 1, k - 1) \o <<1>> \o Zeros(Len(b) - k)

(* m * b, worked out in groups of 10 bits from the low end, carry being   *)
(* what the lower groups carried over; Len(b) is a multiple of 10          *)
RECURSIVE TimesLimbs(_, _, _)
TimesLimbs(b, m, carry) ==
    IF b = <<>> THEN NatToBits(carry)
    ELSE TimesLimbs(SubSeq(b, 1, Len(b) - 10), m,
                    (m * BitsToNat(SubSeq(b, Len(b) - 9, Len(b))) + carry) \div 1024)
             \o Zeros(10 - Len(NatToBits(
                    (m * BitsToNat(SubSeq(b, Len(b) - 9, Len(b))) + carry) % 1024)))
             \o NatToBits((m * BitsToNat(SubSeq(b, Len(b) - 9, Len(b))) + carry) % 1024)

(* Round to nearest, ties to even, to FloatPrecision significant bits;     *)
(* sticky says that the exact value lies above the bits given               *)
RoundFloat(x, sticky) ==
    LET b == StripZeros(x.b)
        k == Len(b) - FloatPrecision
    IN  IF k <= 0 THEN [b |-> b, f |-> x.f]
        ELSE LET keep == SubSeq(b, 1, FloatPrecision)
                 guard == b[FloatPrecision + 1]
                 rest == sticky \/ \E i \in (FloatPrecision + 2)..Len(b) : b[i] = 1
                 up == guard = 1 /\ (rest \/ keep[FloatPrecision] = 1)
             IN  [b |-> IF up THEN Increment(keep) ELSE keep, f |-> x.f - k]

(* 2^i modulo 100 *)
RECURSIVE PowerOfTwoMod100(_)
PowerOfTwoMod100(i) ==
    IF i = 0 THEN 1
    ELSE IF i % 2 = 1 THEN (2 * PowerOfTwoMod100(i - 1)) % 100
    ELSE (PowerOfTwoMod100(i \div 2) * PowerOfTwoMod100(i \div 2)) % 100

(* deviation_percent / 100, for a percentage from 0 to 100: the first      *)
(* FloatPrecision + 11 bits after the point of the quotient (bit i is set  *)
(* when twice the remainder left by the bits before it reaches 100),       *)
(* rounded, anything left after them making the sticky bit                 *)
PercentAsFloat(dev) ==
    IF dev = 100 THEN [b |-> <<1>>, f |-> 0]
    ELSE RoundFloat(
             [b |-> [i \in 1..(FloatPrecision + 11) |->
                        IF 2 * ((dev * PowerOfTwoMod100(i - 1)) % 100) >= 100
                        THEN 1 ELSE 0],
              f |-> FloatPrecision + 11],
             (dev * PowerOfTwoMod100(FloatPrecision + 11)) % 100 # 0)

(* 1 + x, for x <= 1 *)
OnePlus(x) ==
    IF x.f = 0 THEN [b |-> Increment(x.b), f |-> 0]
    ELSE RoundFloat([b |-> <<1>> \o Zeros(x.f - Len(x.b)) \o x.b, f |-> x.f], FALSE)

(* 1 - x, for x <= 1 *)
OneMinus(x) ==
    IF StripZeros(x.b) = <<>> THEN [b |-> <<1>>, f |-> 0]
    ELSE IF x.f = 0 THEN [b |-> <<>>, f |-> 0]
    ELSE RoundFloat(
             [b |-> Tail(Increment(<<0>> \o [i \in 1..x.f |->
                        IF i <= x.f - Len(x.b) THEN 1 ELSE 1 - x.b[i - (x.f - Len(x.b))]])),
              f |-> x.f], FALSE)

(* m * x, m an int *)
FloatTimes(m, x) ==
    RoundFloat([b |-> TimesLimbs(Zeros((10 - (Len(x.b) % 10)) % 10) \o x.b, m, 0),
                f |-> x.f], FALSE)

(* The greatest integer <= x, and the least integer >= x *)
FloorOf(x) == BitsToNat(SubSeq(x.b, 1, Len(x.b) - x.f))

CeilOf(x) ==
    FloorOf(x) + (IF \E i \in (Len(x.b) - x.f + 1)..Len(x.b) : i >= 1 /\ x.b[i] = 1
                  THEN 1 ELSE 0)

(* min_len * (1 - (deviation_percent / 100)): the least length it admits *)
MinAllowed(minLen, dev) == CeilOf(FloatTimes(minLen, OneMinus(PercentAsFloat(dev))))

(* max_len * (1 + (deviation_percent / 100)): the greatest length it admits *)
MaxAllowed(maxLen, dev) == FloorOf(FloatTimes(maxLen, OnePlus(PercentAsFloat(dev))))

(* min_allowed and max_allowed for the deviations and bounds explored,     *)
(* worked out once                                                          *)
AllowedExplored ==
    [dev \in Deviations \cup WindowDeviations |->
        [m \in {MinLen(n) : n \in TextLens \cup WindowTextLens}
                   \cup {MaxLen(n) : n \in TextLens \cup WindowTextLens} |->
            [min |-> MinAllowed(m, dev), max |-> MaxAllowed(m, dev)]]]

(* min_allowed <= length <= max_allowed *)
InAllowed(minLen, maxLen, dev, length) ==
    /\ AllowedExplored[dev][minLen].min <= length
    /\ length <= AllowedExplored[dev][maxLen].max

(* Mutant: max_tries floored at 2 *)
MaxTriesFloorTwo(c) == Max(2, c.tries)

MaxTries(c) == Max(1, c.tries)

(* The locals of one call of summarize; pc is "loop" while the for loop    *)
(* runs, attempt is the loop index, hist the backend outcomes so far.      *)
NewCall(n) ==
    [pc |-> "loop", n |-> n, min_len |-> MinLen(n), max_len |-> MaxLen(n),
     attempt |-> 0, summary |-> NoText, hist |-> <<>>, warned |-> 0]

IdleCall == [NewCall(0) EXCEPT !.pc = "idle"]

(* Mutant: the last attempt tested against max_tries, one too far *)
IsLastAttemptOffByOne(c, s) == s.attempt = MaxTries(c)

IsLastAttempt(c, s) == s.attempt = MaxTries(c) - 1

(* logging.warning of the degraded result: the call goes on unchanged but  *)
(* for the count of warnings                                               *)
AfterWarning(s) == [s EXCEPT !.warned = @ + 1]

(* One iteration of the for loop of summarize. *)
Iteration(im, c, s, out) ==
    LET r == Generate(im, c.use_local, out)
        h == Append(s.hist, out)
    IN  IF r.raised
        THEN [s EXCEPT !.pc = "raised", !.hist = h]
        ELSE LET t == [s EXCEPT !.summary = r.value, !.hist = h]
             IN  IF InAllowed(s.min_len, s.max_len, c.dev, StrLen(r.value))
                 THEN [t EXCEPT !.pc = "returned"]
                 ELSE IF IsLastAttempt(c, s)
                      THEN AfterWarning([t EXCEPT !.pc = "returned"])
                      ELSE [t EXCEPT !.attempt = @ + 1]

(* summarize as one call, the backend answering outs[1], outs[2], ... *)
RECURSIVE RunLoop(_, _, _, _)
RunLoop(im, c, s, outs) ==
    IF s.pc # "loop" \/ outs = <<>>
    THEN s
    ELSE RunLoop(im, c, Iteration(im, c, s, Head(outs)), Tail(outs))

Summarize(im, c, n, outs) == RunLoop(im, c, NewCall(n), outs)

DefaultCfg == [dev |-> DefaultDeviation, tries |-> DefaultMaxTries, use_local |-> TRUE]

----------------------------------------------------------------------------
(* Database *)

FileIds == {"f1", "f2"}

NullName == "NULL"

(* The senders of the explored messages: user id and username *)
Authors == {<<1, "alice">>, <<2, NullName>>}

Times == 1..MaxClock

Transcripts == {Text("stt", 100), Text("stt", 3000)}

Summaries == {Text("gen", 120), Apology}

UserTexts == {Text("user", 7)}

NoId == 0

NoEvent == [op |-> "none"]

RowsOfFile(d, f) == {r \in d : r.telegram_file_id = f}

RowsOfId(d, id) == {r \in d : r.id = id}

(* Mutant: INSERT OR REPLACE, which deletes the old row and inserts a new  *)
(* one under a fresh id                                                     *)
SaveMessageReplace(im, d, q, f, t, s, at, u, un) ==
    LET row == [id |-> q + 1, telegram_file_id |-> f, text |-> t,
                summarized |-> s, note |-> NoText, sent_at |-> at,
                user_id |-> u, username |-> un]
    IN  [db |-> (d \ {r \in d : r.telegram_file_id = f}) \cup {row}, seq |-> q + 1,
         ret |-> IF im = "bot" THEN q + 1 ELSE NoId]

(* Mutant: a plain INSERT into a table without the UNIQUE constraint *)
SaveMessageInsert(im, d, q, f, t, s, at, u, un) ==
    LET row == [id |-> q + 1, telegram_file_id |-> f, text |-> t,
                summarized |-> s, note |-> NoText, sent_at |-> at,
                user_id |-> u, username |-> un]
    IN  [db |-> d \cup {row}, seq |-> q + 1,
         ret |-> IF im = "bot" THEN q + 1 ELSE NoId]

(* Mutant: a table declared without AUTOINCREMENT, whose new rowid is one  *)
(* more than the largest rowid in the table                                *)
SaveMessageMaxRowid(im, d, q, f, t, s, at, u, un) ==
    LET hit == RowsOfFile(d, f)
        top == IF d = {} THEN 0 ELSE CHOOSE i \in {r.id : r \in d} : \A r \in d : r.id <= i
        row == [id |-> top + 1, telegram_file_id |-> f, text |-> t,
                summarized |-> s, note |-> NoText, sent_at |-> at,
                user_id |-> u, username |-> un]
    IN  IF hit = {}
        THEN [db |-> d \cup {row}, seq |-> q + 1, ret |-> top + 1]
        ELSE [db |-> {IF r \in hit
                      THEN [r EXCEPT !.text = t, !.summarized = s, !.sent_at = at,
                                     !.user_id = u, !.username = un]
                      ELSE r : r \in d},
              seq |-> q + 1, ret |-> (CHOOSE r \in hit : TRUE).id]

(* Mutant: an upsert whose DO UPDATE also sets note=excluded.note *)
SaveMessageResetNote(im, d, q, f, t, s, at, u, un) ==
    LET row == [id |-> IF RowsOfFile(d, f) = {} THEN q + 1
                       ELSE (CHOOSE r \in RowsOfFile(d, f) : TRUE).id,
                telegram_file_id |-> f, text |-> t,
                summarized |-> s, note |-> NoText, sent_at |-> at,
                user_id |-> u, username |-> un]
    IN  [db |-> (d \ RowsOfFile(d, f)) \cup {row}, seq |-> q + 1,
         ret |-> IF im = "bot" THEN row.id ELSE NoId]

(* INSERT ... ON CONFLICT(telegram_file_id) DO UPDATE SET ... RETURNING id.  *)
(* The rowid is drawn from sqlite_sequence before the conflict is seen, so  *)
(* the sequence advances on a conflict as well.  The script's statement     *)
(* updates three columns and returns nothing.                                *)
SaveMessage(im, d, q, f, t, s, at, u, un) ==
    LET hit == RowsOfFile(d, f)
    IN  IF hit = {}
        THEN LET row == [id |-> q + 1, telegram_file_id |-> f, text |-> t,
                         summarized |-> s, note |-> NoText, sent_at |-> at,
                         user_id |-> u, username |-> un]
             IN  [db |-> d \cup {row}, seq |-> q + 1,
                  ret |-> IF im = "bot" THEN q + 1 ELSE NoId]
        ELSE LET old == CHOOSE r \in hit : TRUE
                 new == IF im = "bot"
                        THEN [old EXCEPT !.text = t, !.summarized = s, !.sent_at = at,
                                         !.user_id = u, !.username = un]
                        ELSE [old EXCEPT !.text = t, !.summarized = s, !.sent_at = at]
             IN  [db |-> (d \ {old}) \cup {new}, seq |-> q + 1,
                  ret |-> IF im = "bot" THEN old.id ELSE NoId]

(* Mutant: a lookup that ignores the id *)
FetchRecordByIdAny(d, id) == d

FetchRecordById(d, id) == RowsOfId(d, id)

(* Mutant: a DELETE without its WHERE clause *)
DeleteRecordByIdAll(d, id) ==
    [db |-> IF RowsOfId(d, id) # {} THEN {} ELSE d, ret |-> RowsOfId(d, id) # {}]

DeleteRecordById(d, id) ==
    [db |-> d \ RowsOfId(d, id), ret |-> RowsOfId(d, id) # {}]

DeleteRecordByTelegramFileId(d, f) ==
    [db |-> d \ RowsOfFile(d, f), ret |-> RowsOfFile(d, f) # {}]

UpdateSummary(d, id, s) ==
    [db |-> {IF r.id = id THEN [r EXCEPT !.summarized = s] ELSE r : r \in d},
     ret |-> RowsOfId(d, id) # {}]

AddNoteToRecord(d, id, n) ==
    [db |-> {IF r.id = id THEN [r EXCEPT !.note = n] ELSE r : r \in d},
     ret |-> RowsOfId(d, id) # {}]

----------------------------------------------------------------------------
(* Message texts that the handlers parse: sequences of characters *)

Digits == {"0", "1", "2", "3", "4", "5", "6", "7", "8", "9"}

Whitespace == {" "}

DigitVal(c) ==
    CASE c = "0" -> 0 [] c = "1" -> 1 [] c = "2" -> 2 [] c = "3" -> 3 [] c = "4" -> 4
      [] c = "5" -> 5 [] c = "6" -> 6 [] c = "7" -> 7 [] c = "8" -> 8 [] c = "9" -> 9

(* int(digits) *)
RECURSIVE ToInt(_)
ToInt(ds) ==
    IF ds = <<>> THEN 0
    ELSE 10 * ToInt(SubSeq(ds, 1, Len(ds) - 1)) + DigitVal(ds[Len(ds)])

(* str.strip() *)
RECURSIVE StripSeq(_)
StripSeq(t) ==
    IF t = <<>> THEN t
    ELSE IF t[1] \in Whitespace THEN StripSeq(Tail(t))
    ELSE IF t[Len(t)] \in Whitespace THEN StripSeq(SubSeq(t, 1, Len(t) - 1))
    ELSE t

AllDigits(t, from, to) == from <= to /\ \A i \in from..to : t[i] \in Digits

NoMatch == [found |-> FALSE, group |-> <<>>]

(* re.search(r"#?(\d+)$", t): the leftmost position where an optional '#',  *)
(* then one or more digits, then the end of the text match.                 *)
TrailingIdMatchAt(t, i) ==
    \/ t[i] = "#" /\ AllDigits(t, i + 1, Len(t))
    \/ AllDigits(t, i, Len(t))

(* Mutant: re.search(r"#?(\d+)", t), the pattern without its end anchor:  *)
(* the first digit run of the text                                          *)
SearchTrailingIdUnanchored(t) ==
    LET starts == {i \in 1..Len(t) : t[i] \in Digits}
    IN  IF starts = {} THEN NoMatch
        ELSE LET i == CHOOSE k \in starts : \A m \in starts : k <= m
                 ends == {k \in i..Len(t) : AllDigits(t, i, k)}
                 j == CHOOSE k \in ends : \A m \in ends : m <= k
             IN  [found |-> TRUE, group |-> SubSeq(t, i, j)]

SearchTrailingId(t) ==
    LET starts == {i \in 1..Len(t) : TrailingIdMatchAt(t, i)}
    IN  IF starts = {} THEN NoMatch
        ELSE LET i == CHOOSE k \in starts : \A m \in starts : k <= m
                 j == IF t[i] = "#" /\ AllDigits(t, i + 1, Len(t)) THEN i + 1 ELSE i
             IN  [found |-> TRUE, group |-> SubSeq(t, j, Len(t))]

(* re.search(r"^#(\d+)", t): '#' at the start, then the longest digit run *)
SearchLeadingId(t) ==
    IF Len(t) >= 2 /\ t[1] = "#" /\ t[2] \in Digits
    THEN LET ends == {k \in 2..Len(t) : AllDigits(t, 2, k)}
             last == CHOOSE k \in ends : \A m \in ends : m <= k
         IN  [found |-> TRUE, group |-> SubSeq(t, 2, last)]
    ELSE NoMatch

----------------------------------------------------------------------------
(* TelegramBot.on_delete_command *)

Cmd == <<"/", "d", "e", "l", "e", "t", "e">>

(* The /delete messages explored *)
DeleteTexts ==
    {Cmd,
     Cmd \o <<" ", "1">>,
     Cmd \o <<" ", "#", "2">>,
     Cmd \o <<" ", "#", "1", " ", "x">>,
     Cmd \o <<" ", "1", " ">>,
     Cmd \o <<" ", "0", "2">>,
     Cmd \o <<" ", "9">>}

(* The message a /delete replies to: none, a voice message, a text message, *)
(* or a message with neither voice nor text                                  *)
NoReply == [kind |-> "none", file |-> "", text |-> <<>>]

VoiceReply(f) == [kind |-> "voice", file |-> f, text |-> <<>>]

TextReply(t) == [kind |-> "text", file |-> "", text |-> t]

OtherReply == [kind |-> "other", file |-> "", text |-> <<>>]

ReplyTexts ==
    {<<"#", "1", " ", "x">>,
     <<"#", "2", " ", "x">>,
     <<"x", " ", "#", "1">>}

Replies ==
    {NoReply, OtherReply} \cup {VoiceReply(f) : f \in FileIds}
        \cup {TextReply(t) : t \in ReplyTexts}

(* The answer of on_delete_command and the store it leaves *)
DeleteAnswer(d, kind, rid) == [db |-> d, answer |-> kind, rid |-> rid]

(* Mutant: the reply-based strategies tried before the trailing id *)
ResolveDeleteReplyFirst(d, msgText, reply) ==
    LET text == StripSeq(msgText)
        m1 == SearchTrailingId(text)
        m3 == SearchLeadingId(reply.text)
    IN  IF reply.kind = "voice"
        THEN LET r == DeleteRecordByTelegramFileId(d, reply.file)
             IN  IF r.ret THEN DeleteAnswer(r.db, "deleted", NoId)
                 ELSE DeleteAnswer(r.db, "not_found", NoId)
        ELSE IF reply.kind = "text" /\ m3.found
        THEN LET r == DeleteRecordById(d, ToInt(m3.group))
             IN  IF r.ret THEN DeleteAnswer(r.db, "deleted_id", ToInt(m3.group))
                 ELSE DeleteAnswer(r.db, "not_found", NoId)
        ELSE IF m1.found
        THEN LET r == DeleteRecordById(d, ToInt(m1.group))
             IN  IF r.ret THEN DeleteAnswer(r.db, "deleted_id", ToInt(m1.group))
                 ELSE DeleteAnswer(r.db, "not_found", NoId)
        ELSE DeleteAnswer(d, "unresolvable", NoId)

(* Mutant: a strategy that matches a missing record falls through to the   *)
(* next strategy instead of returning                                       *)
ResolveDeleteFallThrough(d, msgText, reply) ==
    LET text == StripSeq(msgText)
        m1 == SearchTrailingId(text)
        m3 == SearchLeadingId(reply.text)
        r1 == DeleteRecordById(d, ToInt(m1.group))
        r2 == DeleteRecordByTelegramFileId(d, reply.file)
        r3 == DeleteRecordById(d, ToInt(m3.group))
    IN  IF m1.found /\ r1.ret
        THEN DeleteAnswer(r1.db, "deleted_id", ToInt(m1.group))
        ELSE IF reply.kind = "voice" /\ r2.ret
        THEN DeleteAnswer(r2.db, "deleted", NoId)
        ELSE IF reply.kind = "text" /\ m3.found /\ r3.ret
        THEN DeleteAnswer(r3.db, "deleted_id", ToInt(m3.group))
        ELSE IF m1.found \/ reply.kind = "voice" \/ (reply.kind = "text" /\ m3.found)
        THEN DeleteAnswer(d, "not_found", NoId)
        ELSE DeleteAnswer(d, "unresolvable", NoId)

ResolveDelete(d, msgText, reply) ==
    LET text == StripSeq(msgText)
        m1 == SearchTrailingId(text)
        m3 == SearchLeadingId(reply.text)
    IN  IF m1.found
        THEN LET r == DeleteRecordById(d, ToInt(m1.group))
             IN  IF r.ret THEN DeleteAnswer(r.db, "deleted_id", ToInt(m1.group))
                 ELSE DeleteAnswer(r.db, "not_found", NoId)
        ELSE IF reply.kind = "voice"
        THEN LET r == DeleteRecordByTelegramFileId(d, reply.file)
             IN  IF r.ret THEN DeleteAnswer(r.db, "deleted", NoId)
                 ELSE DeleteAnswer(r.db, "not_found", NoId)
        ELSE IF reply.kind = "text" /\ m3.found
        THEN LET r == DeleteRecordById(d, ToInt(m3.group))
             IN  IF r.ret THEN DeleteAnswer(r.db, "deleted_id", ToInt(m3.group))
                 ELSE DeleteAnswer(r.db, "not_found", NoId)
        ELSE DeleteAnswer(d, "unresolvable", NoId)

OnDeleteCommand(msgText, reply) ==
    LET r == ResolveDelete(db, msgText, reply)
    IN  /\ impl \in DialogImpls
        /\ db' = r.db
        /\ ev' = [op |-> "delete", text |-> msgText, reply |-> reply,
                  answer |-> r.answer, rid |-> r.rid]
        /\ UNCHANGED <<impl, cfg, llm, seq, saved, clock, voice, dlgVars>>

----------------------------------------------------------------------------
(* The edit dialog: where its state is kept                                 *)
(*                                                                          *)
(* src/bot (aiogram): Dispatcher(storage=MemoryStorage()) keeps a state and *)
(* a data dict per (chat, user); start_polling handles each update in a     *)
(* task of its own, so handlers interleave at their awaits.                 *)
(* src/voice_memo_assistant/bot (python-telegram-bot, impl = "ptb"): the    *)
(* ConversationHandler keeps a state per (chat, user), context.user_data is *)
(* one dict per user, and updates are handled one after the other.          *)

AnyChat == "*"

(* The (chat, user) pairs explored: one user in two chats *)
Pairs == {<<"c1", 1>>, <<"c2", 1>>}

WaitingForChoice == "waiting_for_choice"

NoState == "none"

(* The key of the data: the (chat, user) of aiogram's FSMContext, the user *)
(* of context.user_data                                                     *)
DataKey(im, p) == IF im = "ptb" THEN <<AnyChat, p[2]>> ELSE p

GetState(f, p) == IF \E e \in f : e.key = p THEN WaitingForChoice ELSE NoState

(* state.set_state(EditStates.waiting_for_choice) / return STATE_AWAITING_CHOICE *)
SetState(f, p) == {e \in f : e.key # p} \cup {[key |-> p, state |-> WaitingForChoice]}

(* state.clear() on the state / return ConversationHandler.END *)
ClearState(f, p) == {e \in f : e.key # p}

GetData(pd, k) == {d \in pd : d.key = k}

(* Mutant: a storage that appends the new values and keeps the old ones *)
UpdateDataAppend(pd, k, rid, text) ==
    pd \cup {[key |-> k, record_id |-> rid, new_text |-> text]}

(* Mutant: a storage that keeps the values it holds (dict.setdefault) *)
UpdateDataKeepFirst(pd, k, rid, text) ==
    IF GetData(pd, k) # {} THEN pd
    ELSE pd \cup {[key |-> k, record_id |-> rid, new_text |-> text]}

(* state.update_data(record_id=..., new_text=...) / user_data[...] = ... *)
UpdateData(pd, k, rid, text) ==
    {d \in pd : d.key # k} \cup {[key |-> k, record_id |-> rid, new_text |-> text]}

(* state.clear() on the data / context.user_data.clear() *)
ClearData(pd, k) == {d \in pd : d.key # k}

(* The callback handlers that can be in flight at once *)
Callbacks == {"h1", "h2"}

Choices == {"edit", "note", "cancel"}

IdleCallback == [pc |-> "idle", pair |-> <<"", 0>>, kind |-> ""]

(* No dialog entered yet: how it stands, and the values its entry captured *)
NoDialog == [last |-> "none", record_id |-> NoId, new_text |-> NoText]

ClosedDialog == [last |-> "closed", record_id |-> NoId, new_text |-> NoText]

DialogIdle ==
    /\ fsm = {}
    /\ pending = {}
    /\ cb = [h \in Callbacks |-> IdleCallback]
    /\ hist = [p \in Pairs |-> NoDialog]

----------------------------------------------------------------------------
(* TelegramBot.on_voice *)

Tasks == {"v1", "v2"}

MinTranscriptLen == 5

(* What speech-to-text yields: a fault, or a transcript *)
SttFault == Text("fault", 0)

SttOutcomes == {SttFault, Text("stt", 3), Text("stt", 100)}

(* What the generation backend does during one pipeline run *)
GoodReply == [fault |-> FALSE, body |-> [kind |-> "gen", core |-> 120, pad |-> 0]]

PipelineBackend == {[fault |-> TRUE, body |-> NoText], GoodReply}

(* The sender of the message each run handles *)
AuthorOf(t) == IF t = "v1" THEN <<1, "alice">> ELSE <<2, NullName>>

RECURSIVE SeqsOf(_, _)
SeqsOf(S, n) ==
    IF n = 0 THEN {<<>>}
    ELSE {Append(q, x) : q \in SeqsOf(S, n - 1), x \in S}

(* How many of the backend calls of a summarize call faulted *)
FaultCount(h) == Cardinality({i \in 1..Len(h) : h[i].fault})

IdleRun ==
    [pc |-> "idle", file |-> "", user |-> 0, username |-> NullName, sent_at |-> 0,
     text |-> NoText, summary |-> NoText, rid |-> NoId, stages |-> <<>>, calls |-> 0,
     faults |-> 0]

BotIdle ==
    /\ clock = 1
    /\ voice = [t \in Tasks |-> IdleRun]
    /\ ev = NoEvent
    /\ DialogIdle

(* The Database and LLMHandler a handler works with: the handler of        *)
(* src/voice_memo_assistant/bot imports the package's .database and .llm   *)
LibOf(im) == IF im = "ptb" THEN "bot" ELSE im

(* What the user is told when a step faults: the package's handlers catch  *)
(* the exception and send the failure notice, the script's handler has no  *)
(* try and the exception leaves it                                          *)
FaultAnswer(im) == IF im = "legacy" THEN "unhandled" ELSE "generic_failure"

(* lines 148-159: read the message, take the time, answer "processing"     *)
(* (the script sends no such message)                                       *)
VoiceStart(t, f, a) ==
    /\ voice[t].pc = "idle"
    /\ voice' = [voice EXCEPT ![t] = [IdleRun EXCEPT !.pc = "fetch", !.file = f,
                                        !.user = a[1], !.username = a[2],
                                        !.sent_at = clock]]
    /\ ev' = [op |-> "voice", task |-> t,
              answer |-> IF impl = "legacy" THEN "none" ELSE "processing"]
    /\ UNCHANGED <<impl, cfg, llm, db, seq, saved, clock, dlgVars>>

(* Mutant: a failure path that resets the dispatcher's storage and rolls   *)
(* the table back                                                           *)
VoiceFetchFaultResets(t, ok) ==
    /\ voice[t].pc = "fetch"
    /\ voice' = [voice EXCEPT ![t].pc = IF ok THEN "process" ELSE "failed",
                              ![t].stages = IF ok THEN Append(@, "fetch") ELSE @]
    /\ ev' = [op |-> "voice", task |-> t,
              answer |-> IF ok THEN "none" ELSE FaultAnswer(impl)]
    /\ fsm' = IF ok THEN fsm ELSE {}
    /\ db' = IF ok THEN db ELSE {}
    /\ UNCHANGED <<impl, cfg, llm, seq, saved, clock, pending, cb, hist>>

(* lines 163-165: get_file and download_file; a fault goes to the except   *)
(* clause of line 204                                                       *)
VoiceFetch(t, ok) ==
    /\ voice[t].pc = "fetch"
    /\ voice' = [voice EXCEPT ![t].pc = IF ok THEN "process" ELSE "failed",
                              ![t].stages = IF ok THEN Append(@, "fetch") ELSE @]
    /\ ev' = [op |-> "voice", task |-> t,
              answer |-> IF ok THEN "none" ELSE FaultAnswer(impl)]
    /\ UNCHANGED <<impl, cfg, llm, db, seq, saved, clock, dlgVars>>

(* lines 168-191: transcribe, summarize and save run without an await, so  *)
(* no other handler runs in between.  saveOk says whether the INSERT of    *)
(* save_message executes or raises.  The script has no test of the         *)
(* transcript's length.                                                     *)
VoiceProcess(t, text, outs, saveOk) ==
    LET v == voice[t]
        sm == Summarize(LibOf(impl), cfg, StrLen(text), outs)
        sv == SaveMessage(LibOf(impl), db, seq, v.file, text, sm.summary, v.sent_at,
                          v.user, v.username)
        transcribed == Append(v.stages, "transcribe")
        summarized == Append(transcribed, "summarize")
    IN  /\ v.pc = "process"
        /\ IF text = SttFault
           THEN /\ voice' = [voice EXCEPT ![t].pc = "failed"]
                /\ ev' = [op |-> "voice", task |-> t, answer |-> FaultAnswer(impl)]
                /\ UNCHANGED <<db, seq, saved>>
           ELSE IF impl # "legacy" /\ StrLen(text) < MinTranscriptLen
           THEN /\ voice' = [voice EXCEPT ![t].pc = "short", ![t].stages = transcribed,
                                          ![t].text = text]
                /\ ev' = [op |-> "voice", task |-> t, answer |-> "not_recognized"]
                /\ UNCHANGED <<db, seq, saved>>
           ELSE IF sm.pc = "raised"
           THEN /\ voice' = [voice EXCEPT ![t].pc = "failed", ![t].stages = transcribed,
                                          ![t].text = text, ![t].calls = Len(sm.hist),
                                          ![t].faults = FaultCount(sm.hist)]
                /\ ev' = [op |-> "voice", task |-> t, answer |-> FaultAnswer(impl)]
                /\ UNCHANGED <<db, seq, saved>>
           ELSE IF ~saveOk
           THEN /\ voice' = [voice EXCEPT ![t].pc = "failed", ![t].stages = summarized,
                                          ![t].text = text, ![t].calls = Len(sm.hist),
                                          ![t].faults = FaultCount(sm.hist),
                                          ![t].summary = sm.summary]
                /\ ev' = [op |-> "voice", task |-> t, answer |-> FaultAnswer(impl)]
                /\ UNCHANGED <<db, seq, saved>>
           ELSE /\ seq < MaxSeq
                /\ db' = sv.db
                /\ seq' = sv.seq
                /\ saved' = [saved EXCEPT ![v.file] = @ \cup {sv.ret}]
                /\ voice' = [voice EXCEPT ![t].pc = "reply", ![t].summary = sm.summary,
                                          ![t].rid = sv.ret, ![t].text = text,
                                          ![t].stages = Append(summarized, "persist"),
                                          ![t].calls = Len(sm.hist),
                                          ![t].faults = FaultCount(sm.hist)]
                /\ ev' = [op |-> "voice", task |-> t, answer |-> "none"]
        /\ UNCHANGED <<impl, cfg, llm, clock, dlgVars>>

(* Mutant: the reply formatted with the transcript in place of the summary *)
SummaryReplyOfTranscript(im, run) ==
    [rid |-> IF im = "legacy" THEN NoId ELSE run.rid, summary |-> run.text]

(* SUMMARY_REPLY_HEADER_TEMPLATE.format(record_id=record_id,               *)
(* summary=summary); the script's reply begins with the file id instead    *)
SummaryReply(im, run) ==
    [rid |-> IF im = "legacy" THEN NoId ELSE run.rid, summary |-> run.summary]

(* Mutant: an except clause that takes the record of the run back *)
VoiceReplyStepRollsBack(t, ok) ==
    /\ voice[t].pc = "reply"
    /\ voice' = [voice EXCEPT ![t].pc = IF ok THEN "done" ELSE "failed",
                              ![t].stages = IF ok THEN Append(@, "reply") ELSE @]
    /\ ev' = IF ok
             THEN [op |-> "voice", task |-> t, answer |-> "summary",
                   reply |-> SummaryReply(impl, voice[t])]
             ELSE [op |-> "voice", task |-> t, answer |-> FaultAnswer(impl)]
    /\ db' = IF ok THEN db ELSE db \ RowsOfFile(db, voice[t].file)
    /\ UNCHANGED <<impl, cfg, llm, seq, saved, clock, dlgVars>>

(* lines 194-202: the summary reply; a fault goes to the except clause *)
VoiceReplyStep(t, ok) ==
    /\ voice[t].pc = "reply"
    /\ voice' = [voice EXCEPT ![t].pc = IF ok THEN "done" ELSE "failed",
                              ![t].stages = IF ok THEN Append(@, "reply") ELSE @]
    /\ ev' = IF ok
             THEN [op |-> "voice", task |-> t, answer |-> "summary",
                   reply |-> SummaryReply(impl, voice[t])]
             ELSE [op |-> "voice", task |-> t, answer |-> FaultAnswer(impl)]
    /\ UNCHANGED <<impl, cfg, llm, db, seq, saved, clock, dlgVars>>

Tick ==
    /\ clock < MaxClock
    /\ clock' = clock + 1
    /\ UNCHANGED <<impl, cfg, llm, db, seq, saved, voice, ev, dlgVars>>

----------------------------------------------------------------------------
(* The bot of the package *)

Init ==
    /\ impl = "bot"
    /\ cfg = DefaultCfg
    /\ llm = IdleCall
    /\ db = {}
    /\ seq = 0
    /\ saved = [f \in FileIds |-> {}]
    /\ BotIdle

(* The pipeline under every outcome of its collaborators, next to delete    *)
(* commands                                                                  *)
Next ==
    \/ \E t \in Tasks, f \in FileIds : VoiceStart(t, f, AuthorOf(t))
    \/ \E t \in Tasks, ok \in BOOLEAN : VoiceFetch(t, ok)
    \/ \E t \in Tasks, text \in SttOutcomes,
          outs \in SeqsOf(PipelineBackend, MaxTries(cfg)), saveOk \in BOOLEAN :
              VoiceProcess(t, text, outs, saveOk)
    \/ \E t \in Tasks, ok \in BOOLEAN : VoiceReplyStep(t, ok)
    \/ \E text \in {Cmd, Cmd \o <<" ", "1">>}, reply \in {NoReply, VoiceReply("f1")} :
          OnDeleteCommand(text, reply)
    \/ Tick

Spec == Init /\ [][Next]_vars

(* The delete command under every explored message, the store filled by    *)
(* pipeline runs whose collaborators all succeed                             *)
NextDelete ==
    \/ \E t \in Tasks, f \in FileIds : VoiceStart(t, f, AuthorOf(t))
    \/ \E t \in Tasks : VoiceFetch(t, TRUE)
    \/ \E t \in Tasks : VoiceProcess(t, Text("stt", 100), <<GoodReply>>, TRUE)
    \/ \E t \in Tasks : VoiceReplyStep(t, TRUE)
    \/ \E text \in DeleteTexts, reply \in Replies : OnDeleteCommand(text, reply)

SpecDelete == Init /\ [][NextDelete]_vars

(* The pipeline of each of the three handlers on its own, every outcome of *)
(* download, speech-to-text, generation backend, INSERT and reply           *)
InitPipeline ==
    /\ impl \in {"bot", "ptb", "legacy"}
    /\ cfg = DefaultCfg
    /\ llm = IdleCall
    /\ db = {}
    /\ seq = 0
    /\ saved = [f \in FileIds |-> {}]
    /\ BotIdle

NextPipeline ==
    \/ \E t \in Tasks, f \in FileIds : VoiceStart(t, f, AuthorOf(t))
    \/ \E t \in Tasks, ok \in BOOLEAN : VoiceFetch(t, ok)
    \/ \E t \in Tasks, text \in SttOutcomes,
          outs \in SeqsOf(PipelineBackend, MaxTries(cfg)), saveOk \in BOOLEAN :
              VoiceProcess(t, text, outs, saveOk)
    \/ \E t \in Tasks, ok \in BOOLEAN : VoiceReplyStep(t, ok)

SpecPipeline == InitPipeline /\ [][NextPipeline]_vars

----------------------------------------------------------------------------
(* The edit dialog: on_reply_to_summary_for_edit, the three callbacks and  *)
(* handle_cancel_edit                                                       *)

(* The text each (chat, user) submits *)
SubmittedText(p) ==
    IF p = <<"c1", 1>> THEN Text("user", 7)
    ELSE IF p = <<"c2", 1>> THEN Text("user", 8)
    ELSE Text("user", 9)

(* The messages a submitted text replies to *)
DialogReplies == {TextReply(t) : t \in ReplyTexts}

Truthy(rid, text) == rid # 0 /\ StrLen(text) > 0

(* Mutant: a cancel that writes the held text as the summary *)
ApplyChoiceCancelWrites(d, kind, data) ==
    IF data = {} THEN [db |-> d, answer |-> "error", applied |-> FALSE]
    ELSE LET x == CHOOSE y \in data : TRUE
             r == IF kind = "note" THEN AddNoteToRecord(d, x.record_id, x.new_text)
                  ELSE UpdateSummary(d, x.record_id, x.new_text)
         IN  [db |-> r.db, answer |-> IF kind = "cancel" THEN "cancelled" ELSE "updated",
              applied |-> r.ret /\ kind # "cancel"]

(* The body of a callback between its awaits: read the data, write the     *)
(* store; handle_cancel_callback writes nothing                             *)
(* Mutant: the callbacks without the test "if record_id and new_text":     *)
(* the update, given None, matches no row                                   *)
ApplyChoiceUntested(d, kind, data) ==
    IF kind = "cancel" THEN [db |-> d, answer |-> "cancelled", applied |-> FALSE]
    ELSE IF data = {} THEN [db |-> d, answer |-> "not_found", applied |-> FALSE]
    ELSE LET x == CHOOSE y \in data : TRUE
             r == IF kind = "edit" THEN UpdateSummary(d, x.record_id, x.new_text)
                  ELSE AddNoteToRecord(d, x.record_id, x.new_text)
         IN  IF r.ret
             THEN [db |-> r.db, answer |-> IF kind = "edit" THEN "updated" ELSE "note_added",
                   applied |-> TRUE]
             ELSE [db |-> r.db, answer |-> "not_found", applied |-> FALSE]

ApplyChoice(d, kind, data) ==
    IF kind = "cancel" THEN [db |-> d, answer |-> "cancelled", applied |-> FALSE]
    ELSE IF data = {} THEN [db |-> d, answer |-> "error", applied |-> FALSE]
    ELSE LET x == CHOOSE y \in data : TRUE
             r == IF kind = "edit" THEN UpdateSummary(d, x.record_id, x.new_text)
                  ELSE AddNoteToRecord(d, x.record_id, x.new_text)
         IN  IF ~Truthy(x.record_id, x.new_text)
             THEN [db |-> d, answer |-> "error", applied |-> FALSE]
             ELSE IF r.ret
             THEN [db |-> r.db, answer |-> IF kind = "edit" THEN "updated" ELSE "note_added",
                   applied |-> TRUE]
             ELSE [db |-> r.db, answer |-> "not_found", applied |-> FALSE]

(* handle_cancel_edit, the fallback of the ConversationHandler *)
HandleCancelEdit(p, op, reply) ==
    /\ fsm' = ClearState(fsm, p)
    /\ pending' = ClearData(pending, DataKey(impl, p))
    /\ hist' = [hist EXCEPT ![p] = ClosedDialog]
    /\ ev' = [op |-> op, pair |-> p, reply |-> reply, answer |-> "edit_cancelled"]
    /\ UNCHANGED db

(* A text message that replies to another message, text being what the    *)
(* user wrote.  In a conversation that awaits the choice the               *)
(* ConversationHandler (allow_reentry off) hands it to the fallback;       *)
(* aiogram's filter does not look at the state.                            *)
OnReplyWithText(p, reply, text) ==
    LET m == SearchLeadingId(reply.text)
        rid == ToInt(m.group)
    IN  /\ impl \in DialogImpls
        /\ IF impl = "ptb" /\ GetState(fsm, p) = WaitingForChoice
           THEN HandleCancelEdit(p, "reply_text", reply)
           ELSE IF reply.kind # "text" \/ ~m.found
           THEN /\ ev' = [op |-> "reply_text", pair |-> p, reply |-> reply,
                          answer |-> "hint"]
                /\ UNCHANGED <<db, fsm, pending, hist>>
           ELSE IF FetchRecordById(db, rid) = {}
           THEN /\ ev' = [op |-> "reply_text", pair |-> p, reply |-> reply,
                          answer |-> "not_found"]
                /\ UNCHANGED <<db, fsm, pending, hist>>
           ELSE /\ fsm' = SetState(fsm, p)
                /\ pending' = UpdateData(pending, DataKey(impl, p), rid, text)
                /\ hist' = [hist EXCEPT ![p] = [last |-> "open", record_id |-> rid,
                                                 new_text |-> text]]
                /\ ev' = [op |-> "reply_text", pair |-> p, reply |-> reply,
                          answer |-> "prompt", text |-> text]
                /\ UNCHANGED db
        /\ UNCHANGED <<impl, cfg, llm, seq, saved, clock, voice, cb>>

OnReplyToSummaryForEdit(p, reply) == OnReplyWithText(p, reply, SubmittedText(p))

(* A press of a choice button of a prompt the bot has sent.               *)
(* python-telegram-bot: the callback runs to its end before the next       *)
(* update is handled; without a conversation awaiting the choice no        *)
(* handler takes the update.                                                *)
OnChoicePtb(p, k) ==
    LET r == ApplyChoice(db, k, GetData(pending, DataKey(impl, p)))
    IN  /\ impl = "ptb"
        /\ hist[p].last # "none"
        /\ IF GetState(fsm, p) = WaitingForChoice
           THEN /\ db' = r.db
                /\ pending' = ClearData(pending, DataKey(impl, p))
                /\ fsm' = ClearState(fsm, p)
                /\ hist' = [hist EXCEPT ![p] = ClosedDialog]
                /\ ev' = [op |-> "choice", pair |-> p, kind |-> k, answer |-> r.answer]
           ELSE /\ ev' = [op |-> "choice", pair |-> p, kind |-> k, answer |-> "ignored"]
                /\ UNCHANGED <<db, pending, fsm, hist>>
        /\ UNCHANGED <<impl, cfg, llm, seq, saved, clock, voice, cb>>

(* aiogram: the state filter is evaluated when the update is dispatched;   *)
(* the handler then awaits callback_query.answer()                          *)
CallbackDispatch(h, p, k) ==
    /\ impl = "bot"
    /\ hist[p].last # "none"
    /\ cb[h].pc = "idle"
    /\ IF GetState(fsm, p) = WaitingForChoice
       THEN /\ cb' = [cb EXCEPT ![h] = [pc |-> "answer", pair |-> p, kind |-> k]]
            /\ ev' = [op |-> "choice", pair |-> p, kind |-> k, answer |-> "none"]
       ELSE /\ ev' = [op |-> "choice", pair |-> p, kind |-> k, answer |-> "ignored"]
            /\ UNCHANGED cb
    /\ UNCHANGED <<impl, cfg, llm, db, seq, saved, clock, voice, fsm, pending, hist>>

(* state.get_data(), the store update, then the await of edit_text *)
CallbackApply(h) ==
    LET c == cb[h]
        r == ApplyChoice(db, c.kind, GetData(pending, DataKey(impl, c.pair)))
    IN  /\ impl = "bot"
        /\ c.pc = "answer"
        /\ db' = r.db
        /\ hist' = IF r.applied THEN [hist EXCEPT ![c.pair].last = "applied"] ELSE hist
        /\ cb' = [cb EXCEPT ![h].pc = "edit_text"]
        /\ ev' = [op |-> "apply", pair |-> c.pair, kind |-> c.kind, answer |-> r.answer]
        /\ UNCHANGED <<impl, cfg, llm, seq, saved, clock, voice, fsm, pending>>

(* state.clear() *)
CallbackClear(h) ==
    LET c == cb[h]
    IN  /\ impl = "bot"
        /\ c.pc = "edit_text"
        /\ fsm' = ClearState(fsm, c.pair)
        /\ pending' = ClearData(pending, DataKey(impl, c.pair))
        /\ hist' = [hist EXCEPT ![c.pair] = ClosedDialog]
        /\ cb' = [cb EXCEPT ![h] = IdleCallback]
        /\ ev' = [op |-> "clear", pair |-> c.pair, kind |-> c.kind, answer |-> "none"]
        /\ UNCHANGED <<impl, cfg, llm, db, seq, saved, clock, voice>>

(* A text message that is neither a reply nor a command: the fallback of   *)
(* a conversation that awaits the choice takes it; no aiogram handler       *)
(* matches it                                                               *)
OnOtherMessage(p) ==
    /\ impl \in DialogImpls
    /\ IF impl = "ptb" /\ GetState(fsm, p) = WaitingForChoice
       THEN HandleCancelEdit(p, "text", NoReply)
       ELSE /\ ev' = [op |-> "text", pair |-> p, reply |-> NoReply, answer |-> "ignored"]
            /\ UNCHANGED <<db, fsm, pending, hist>>
    /\ UNCHANGED <<impl, cfg, llm, seq, saved, clock, voice, cb>>

(* conversation_timeout seconds pass without an update for the dialog of   *)
(* p, no callback of p being in flight.  The ConversationHandler's timeout *)
(* job then ends the conversation (user_data is left as it is); src/bot    *)
(* sets no timeout.                                                         *)
Expire(p) ==
    /\ impl \in DialogImpls
    /\ hist[p].last = "open"
    /\ GetState(fsm, p) = WaitingForChoice
    /\ \A h \in Callbacks : cb[h].pc = "idle" \/ cb[h].pair # p
    /\ hist' = [hist EXCEPT ![p].last = "expired"]
    /\ fsm' = IF impl = "ptb" THEN ClearState(fsm, p) ELSE fsm
    /\ ev' = [op |-> "timeout", pair |-> p, kind |-> "", answer |-> "none"]
    /\ UNCHANGED <<impl, cfg, llm, db, seq, saved, clock, voice, pending, cb>>

(* The table the bot finds when it starts: two records saved by earlier    *)
(* runs.  The database file outlives the process.                           *)
StoredRecords ==
    LET s1 == SaveMessage("bot", {}, 0, "f1", Text("stt", 100), Text("gen", 120), 1,
                          1, "alice")
    IN  SaveMessage("bot", s1.db, s1.seq, "f2", Text("stt", 100), Text("gen", 120), 1,
                    2, NullName)

InitDialog ==
    /\ impl \in DialogImpls
    /\ cfg = DefaultCfg
    /\ llm = IdleCall
    /\ db = StoredRecords.db
    /\ seq = StoredRecords.seq
    /\ saved = [f \in FileIds |-> {r.id : r \in RowsOfFile(StoredRecords.db, f)}]
    /\ BotIdle

(* The dialogs of all pairs, one callback in flight at a time *)
NextDialog ==
    \/ \E p \in Pairs, reply \in DialogReplies : OnReplyToSummaryForEdit(p, reply)
    \/ \E p \in Pairs, k \in Choices : OnChoicePtb(p, k)
    \/ \E p \in Pairs, k \in Choices : CallbackDispatch("h1", p, k)
    \/ CallbackApply("h1")
    \/ CallbackClear("h1")
    \/ \E p \in Pairs : OnOtherMessage(p)
    \/ \E p \in Pairs : Expire(p)
    \/ OnDeleteCommand(Cmd \o <<" ", "1">>, NoReply)

SpecDialog == InitDialog /\ [][NextDialog]_vars

(* The dialog of one pair, its callbacks handled concurrently *)
RacingPair == <<"c1", 1>>

NextRace ==
    \/ \E reply \in DialogReplies : OnReplyToSummaryForEdit(RacingPair, reply)
    \/ \E k \in Choices : OnChoicePtb(RacingPair, k)
    \/ \E h \in Callbacks, k \in Choices : CallbackDispatch(h, RacingPair, k)
    \/ \E h \in Callbacks : CallbackApply(h)
    \/ \E h \in Callbacks : CallbackClear(h)
    \/ OnOtherMessage(RacingPair)
    \/ Expire(RacingPair)
    \/ OnDeleteCommand(Cmd \o <<" ", "1">>, NoReply)

SpecRace == InitDialog /\ [][NextRace]_vars

(* The dialog of one pair with concurrent callbacks, the same user        *)
(* entering and cancelling a dialog in another chat                         *)
OtherPair == <<"c2", 1>>

NextChoice ==
    \/ NextRace
    \/ \E reply \in DialogReplies : OnReplyToSummaryForEdit(OtherPair, reply)
    \/ OnChoicePtb(OtherPair, "cancel")

SpecChoice == InitDialog /\ [][NextChoice]_vars

(* The dialog of one pair when the user sends a second text while the      *)
(* choice is awaited.  The text a user writes is never looked into; the    *)
(* first text of a dialog has 7 characters, a text sent while the dialog   *)
(* holds record 1 has 8 and one sent while it holds record 2 has 9.        *)
(* /delete messages that name a record by id, by the voice message or by   *)
(* the summary replied to, or name none, may come in between.              *)
NextReplace ==
    \/ \E reply \in DialogReplies :
           OnReplyWithText(RacingPair, reply,
               Text("user", 7 + Cardinality(
                   {i \in 1..2 : \E d \in GetData(pending, DataKey(impl, RacingPair)) :
                                     i <= d.record_id})))
    \/ \E k \in Choices : OnChoicePtb(RacingPair, k)
    \/ \E k \in Choices : CallbackDispatch("h1", RacingPair, k)
    \/ CallbackApply("h1")
    \/ CallbackClear("h1")
    \/ \E text \in {Cmd, Cmd \o <<" ", "1">>},
          reply \in {NoReply, VoiceReply("f2"), TextReply(<<"#", "2", " ", "x">>)} :
           OnDeleteCommand(text, reply)

SpecReplace == InitDialog /\ [][NextReplace]_vars

(* What runs without the user: a handler that has started goes on to its   *)
(* end, and the time of the timeout comes                                   *)
SpecRaceFair ==
    /\ SpecRace
    /\ WF_vars(\E h \in Callbacks : CallbackApply(h))
    /\ WF_vars(\E h \in Callbacks : CallbackClear(h))
    /\ WF_vars(Expire(RacingPair))

----------------------------------------------------------------------------
(* The store on its own: calls of save_message, update_summary and         *)
(* add_note_to_record in any order                                          *)

DbSave(f, t, s, at, u, un) ==
    LET r == SaveMessage(impl, db, seq, f, t, s, at, u, un)
    IN  /\ seq < MaxSeq
        /\ db' = r.db
        /\ seq' = r.seq
        /\ ev' = [op |-> "save", file |-> f, text |-> t, summary |-> s, at |-> at,
                  user |-> u, username |-> un, ret |-> r.ret,
                  hit |-> RowsOfFile(db, f) # {},
                  was |-> {o.summarized : o \in RowsOfFile(db, f)},
                  differs |-> \E o \in RowsOfFile(db, f) :
                                  o.text # t /\ o.summarized # s]
        /\ saved' = [saved EXCEPT ![f] = @ \cup {r.ret}]
        /\ UNCHANGED <<impl, cfg, llm, botVars, dlgVars>>

DbUpdateSummary(id, s) ==
    LET r == UpdateSummary(db, id, s)
    IN  /\ impl = "bot"
        /\ db' = r.db
        /\ ev' = [op |-> "update_summary", id |-> id, ret |-> r.ret]
        /\ UNCHANGED <<impl, cfg, llm, seq, saved, botVars, dlgVars>>

DbAddNote(id, n) ==
    LET r == AddNoteToRecord(db, id, n)
    IN  /\ LibOf(impl) = "bot"
        /\ db' = r.db
        /\ ev' = [op |-> "add_note", id |-> id, ret |-> r.ret]
        /\ UNCHANGED <<impl, cfg, llm, seq, saved, botVars, dlgVars>>

InitStore ==
    /\ impl \in Impls
    /\ cfg = DefaultCfg
    /\ llm = IdleCall
    /\ db = {}
    /\ seq = 0
    /\ saved = [f \in FileIds |-> {}]
    /\ BotIdle

NextStore ==
    \/ \E f \in FileIds, t \in Transcripts, s \in Summaries, at \in Times,
          a \in Authors : DbSave(f, t, s, at, a[1], a[2])
    \/ \E id \in 1..MaxSeq, s \in UserTexts : DbUpdateSummary(id, s)
    \/ \E id \in 1..MaxSeq, n \in UserTexts : DbAddNote(id, n)

SpecStore == InitStore /\ [][NextStore]_vars

----------------------------------------------------------------------------
(* TelegramBot.on_sum_command and Database.fetch_summaries_by_date *)

(* The times Utils.now_utc() has returned: 1 is noon of the first day, 2   *)
(* midnight and 3 noon of the second day                                    *)
SumTimes == {1, 2, 3}

(* date().isoformat() of the day of time k *)
DateOf(k) ==
    <<"2", "0", "2", "4", "-", "0", "1", "-", "0", IF k = 1 THEN "1" ELSE "2">>

(* Utils.now_utc(): ISO-8601 in UTC without microseconds *)
IsoFormat(k) ==
    DateOf(k) \o <<"T">> \o (IF k % 2 = 1 THEN <<"1", "2">> ELSE <<"0", "0">>)
              \o <<":", "0", "0", ":", "0", "0", "+", "0", "0", ":", "0", "0">>

(* A decimal digit that is not one of 0-9 (ARABIC-INDIC DIGIT ONE), which  *)
(* \d of a str pattern matches as well                                      *)
OtherDigit == "u0661"

RegexDigits == Digits \cup {OtherDigit}

(* re.match(r"^\d{4}-\d{2}-\d{2}$", s); $ also matches before a final      *)
(* newline                                                                  *)
MatchesDateRegex(str) ==
    /\ Len(str) = 10 \/ (Len(str) = 11 /\ str[11] = "\n")
    /\ \A i \in {1, 2, 3, 4, 6, 7, 9, 10} : str[i] \in RegexDigits
    /\ str[5] = "-"
    /\ str[8] = "-"

(* sent_at LIKE 'date_str%': _ in the pattern stands for any character (a  *)
(* pattern that passed the regex holds none) *)
LikePrefix(pat, str) ==
    /\ Len(pat) <= Len(str)
    /\ \A i \in 1..Len(pat) : pat[i] = "_" \/ pat[i] = str[i]

(* The code points of the characters of a timestamp *)
CodePoint(c) ==
    CASE c = "+" -> 43
      [] c = "-" -> 45
      [] c \in Digits -> 48 + DigitVal(c)
      [] c = ":" -> 58
      [] c = "T" -> 84
      [] OTHER -> 1633

(* a <= b in the BINARY collation of TEXT values *)
RECURSIVE TextLeq(_, _)
TextLeq(a, b) ==
    IF a = <<>> THEN TRUE
    ELSE IF b = <<>> THEN FALSE
    ELSE IF CodePoint(Head(a)) # CodePoint(Head(b))
    THEN CodePoint(Head(a)) < CodePoint(Head(b))
    ELSE TextLeq(Tail(a), Tail(b))

SummaryTuple(r) ==
    [id |-> r.id, sent_at |-> IsoFormat(r.sent_at), summarized |-> r.summarized,
     note |-> r.note]

RECURSIVE Arrangements(_)
Arrangements(S) ==
    IF S = {} THEN {<<>>}
    ELSE UNION {{<<x>> \o q : q \in Arrangements(S \ {x})} : x \in S}

(* Mutant: the SELECT without ORDER BY *)
FetchSummariesByDateUnordered(d, date_str) ==
    Arrangements({SummaryTuple(r) : r \in {x \in d : LikePrefix(date_str, IsoFormat(x.sent_at))}})

(* SELECT id, sent_at, summarized, note ... WHERE sent_at LIKE ? ORDER BY  *)
(* sent_at ASC: the lists the query can return (rows of equal sent_at come *)
(* in either order)                                                         *)
FetchSummariesByDate(d, date_str) ==
    {q \in Arrangements({SummaryTuple(r) :
                            r \in {x \in d : LikePrefix(date_str, IsoFormat(x.sent_at))}}) :
        \A i \in 1..Len(q) : \A j \in i..Len(q) : TextLeq(q[i].sent_at, q[j].sent_at)}

(* The lines of the answer: one per record, followed by the note's line    *)
(* when the note is neither NULL nor empty                                  *)
RECURSIVE SumLines(_)
SumLines(q) ==
    IF q = <<>> THEN <<>>
    ELSE LET x == Head(q)
             line == [kind |-> "line", sent_at |-> x.sent_at, record_id |-> x.id,
                      text |-> x.summarized]
             noteLine == [kind |-> "note", sent_at |-> x.sent_at, record_id |-> x.id,
                          text |-> x.note]
         IN  (IF StrLen(x.note) > 0 THEN <<line, noteLine>> ELSE <<line>>)
                 \o SumLines(Tail(q))

(* The arguments of /sum that are explored; <<>> is the command alone *)
NoArgs == <<>>

SumArgs ==
    {NoArgs,
     DateOf(1), DateOf(2),
     <<"2", "0", "2", "4", "-", "0", "1", "-", "0", "9">>,
     <<"2", "0", "2", "4", "-", "1", "-", "0", "1">>,
     DateOf(1) \o <<"x">>,
     <<"0", "1", ".", "0", "1", ".", "2", "0", "2", "4">>,
     <<"2", "0", "2", "4", "-", "0", "1", "-", "0", OtherDigit>>}

(* on_sum_command; today is datetime.datetime.now().date().isoformat(),    *)
(* the date of the host's local time                                        *)
OnSumCommand(args, today) ==
    LET date_str == IF args # NoArgs THEN args ELSE today
    IN  /\ impl \in DialogImpls
        /\ IF args # NoArgs /\ ~MatchesDateRegex(args)
           THEN ev' = [op |-> "sum", args |-> args, date_str |-> date_str,
                       answer |-> "format_error", lines |-> <<>>]
           ELSE \E q \in FetchSummariesByDate(db, date_str) :
                    ev' = [op |-> "sum", args |-> args, date_str |-> date_str,
                           answer |-> IF q = <<>> THEN "empty" ELSE "list",
                           lines |-> SumLines(q)]
        /\ UNCHANGED <<impl, cfg, llm, db, seq, saved, botVars, dlgVars>>

InitSum ==
    /\ impl \in DialogImpls
    /\ cfg = DefaultCfg
    /\ llm = IdleCall
    /\ db = {}
    /\ seq = 0
    /\ saved = [f \in FileIds |-> {}]
    /\ BotIdle

(* /sum next to the calls that fill the table *)
NextSum ==
    \/ \E f \in FileIds, at \in SumTimes :
          DbSave(f, Text("stt", 100), Text("gen", 120), at, 1, "alice")
    \/ \E id \in {1, 2} : DbAddNote(id, Text("user", 7))
    \/ \E args \in SumArgs, today \in {DateOf(1), DateOf(2)} : OnSumCommand(args, today)

SpecSum == InitSum /\ [][NextSum]_vars

----------------------------------------------------------------------------
(* The summarizer on its own *)

LlmCall(n) ==
    /\ llm.pc # "loop"
    /\ llm' = NewCall(n)
    /\ UNCHANGED <<impl, cfg, db, seq, saved, ev, botVars, dlgVars>>

LlmAttempt(out) ==
    /\ llm.pc = "loop"
    /\ llm' = Iteration(impl, cfg, llm, out)
    /\ UNCHANGED <<impl, cfg, db, seq, saved, ev, botVars, dlgVars>>

InitLLM ==
    /\ impl \in Impls
    /\ cfg \in [dev : Deviations, tries : TriesCfgs, use_local : BOOLEAN]
    /\ llm = IdleCall
    /\ db = {}
    /\ seq = 0
    /\ saved = [f \in FileIds |-> {}]
    /\ BotIdle

NextLLM ==
    \/ \E n \in TextLens : LlmCall(n)
    \/ \E out \in BackendOutcomes : LlmAttempt(out)

SpecLLM == InitLLM /\ [][NextLLM]_vars

----------------------------------------------------------------------------
(* The summarizer with any configured number of tries (SUMMARY_MAX_TRIES   *)
(* may be set to any integer, negative ones included), every backend call  *)
(* coming back: requests.post is given timeout=120, and the client of the  *)
(* cloud backend gives up on a request by itself                           *)

InitTries ==
    /\ impl \in Impls
    /\ cfg \in [dev : Deviations, tries : (-1)..MaxTriesCfg, use_local : BOOLEAN]
    /\ llm = IdleCall
    /\ db = {}
    /\ seq = 0
    /\ saved = [f \in FileIds |-> {}]
    /\ BotIdle

SpecTriesFair ==
    /\ InitTries
    /\ [][NextLLM]_vars
    /\ WF_vars(\E out \in BackendOutcomes : LlmAttempt(out))

----------------------------------------------------------------------------
(* The summarizer at the edges of its window *)

InitWindow ==
    /\ impl \in Impls
    /\ cfg \in [dev : WindowDeviations, tries : TriesCfgs, use_local : BOOLEAN]
    /\ llm = IdleCall
    /\ db = {}
    /\ seq = 0
    /\ saved = [f \in FileIds |-> {}]
    /\ BotIdle

NextWindow ==
    \/ \E n \in WindowTextLens : LlmCall(n)
    \/ \E c \in WindowOutLens : LlmAttempt([fault |-> FALSE, body |-> Text("gen", c)])
    \/ LlmAttempt([fault |-> TRUE, body |-> NoText])

SpecWindow == InitWindow /\ [][NextWindow]_vars

----------------------------------------------------------------------------
(* Claims about the summarizer, checked under SpecLLM and SpecWindow *)

(* What the claims say an attempt yields: the reply with surrounding       *)
(* whitespace removed, or the fixed apology string when the call faulted.  *)
AttemptResult(i) ==
    IF llm.hist[i].fault
    THEN [kind |-> "apology", core |-> 58, pad |-> 0]
    ELSE [llm.hist[i].body EXCEPT !.pad = 0]

(* The window the claims give for an input of length n. *)
ClaimedMin(n) == IF n < 500 THEN 150 ELSE IF n \div 5 > 150 THEN n \div 5 ELSE 150

ClaimedMax(n) == IF n < 500 THEN 250 ELSE n \div 3

AttemptInWindow(i) ==
    LET len == AttemptResult(i).core
    IN  /\ ClaimedMin(llm.n) * (100 - cfg.dev) <= 100 * len
        /\ 100 * len <= ClaimedMax(llm.n) * (100 + cfg.dev)

NoFaultSoFar == \A i \in 1..Len(llm.hist) : ~llm.hist[i].fault

ClaimedTries == IF cfg.tries > 1 THEN cfg.tries ELSE 1

(* C1: summarize never fails outward: whatever the backend does (a reply   *)
(* of any length, a timeout or transport fault), no call of summarize ends *)
(* with an exception.                                                      *)
C1_NeverFailsOutward == llm.pc # "raised"

(* C2: with a backend that answers every call (no fault), summarize        *)
(* returns the output of the first attempt whose length is in the allowed  *)
(* window and calls the backend no further; it returns an out-of-window    *)
(* output only when max_tries attempts were all out of the window, and     *)
(* then the last one.  While the loop runs, every attempt so far was out   *)
(* of the window and fewer than max_tries calls were made.                 *)
C2_FirstInWindowOrExhausted ==
    NoFaultSoFar =>
        LET k == Len(llm.hist)
        IN  /\ llm.pc # "raised"
            /\ llm.pc = "returned" =>
                   /\ k >= 1
                   /\ llm.summary = AttemptResult(k)
                   /\ \A i \in 1..(k - 1) : ~AttemptInWindow(i)
                   /\ AttemptInWindow(k) \/ k = ClaimedTries
                   /\ k <= ClaimedTries
            /\ llm.pc = "loop" =>
                   /\ k < ClaimedTries
                   /\ \A i \in 1..k : ~AttemptInWindow(i)

C2_Witness ==
    /\ llm.pc = "returned"
    /\ cfg.tries = 2
    /\ Len(llm.hist) = 2
    /\ NoFaultSoFar
    /\ llm.hist[1] = llm.hist[2]
    /\ ~AttemptInWindow(2)
    /\ llm.summary = AttemptResult(2)

(* C3: in src/bot/llm.py a backend fault is replaced by the apology        *)
(* string, which is that attempt's result and goes through the same window *)
(* check as any reply: the call never raises, it returns the result of the *)
(* first attempt in the window (or of attempt max_tries), and with         *)
(* max_tries = 2, attempt 1 faulting out of the window and attempt 2       *)
(* answering in the window, it returns attempt 2's text, not the apology.  *)
C3_FaultBecomesApology ==
    impl = "bot" =>
        LET k == Len(llm.hist)
        IN  /\ llm.pc # "raised"
            /\ (k >= 1 /\ llm.pc # "idle") => llm.summary = AttemptResult(k)
            /\ llm.pc = "returned" =>
                   /\ \A i \in 1..(k - 1) : ~AttemptInWindow(i)
                   /\ AttemptInWindow(k) \/ k = ClaimedTries
            /\ (/\ llm.pc = "returned"
                /\ cfg.tries = 2
                /\ k = 2
                /\ llm.hist[1].fault
                /\ ~llm.hist[2].fault
                /\ AttemptInWindow(2))
               => (llm.summary.kind = "gen" /\ llm.summary.core = llm.hist[2].body.core)

C3_Witness ==
    /\ impl = "bot"
    /\ llm.pc = "returned"
    /\ cfg.tries = 2
    /\ cfg.dev = 20
    /\ Len(llm.hist) = 2
    /\ llm.hist[1].fault
    /\ ~AttemptInWindow(1)
    /\ ~llm.hist[2].fault
    /\ AttemptInWindow(2)
    /\ llm.summary.kind = "gen"

(* C4: the summary bounds depend on the input length n alone: [150, 250]   *)
(* for n < 500, [max(150, n div 5), n div 3] for n >= 500; n = 100 gives   *)
(* [150, 250] and n = 3000 gives [600, 1000].                              *)
C4_SummaryBounds ==
    llm.pc # "idle" =>
        /\ llm.n < 500 => (llm.min_len = 150 /\ llm.max_len = 250)
        /\ llm.n >= 500 =>
               /\ llm.min_len = (IF llm.n \div 5 > 150 THEN llm.n \div 5 ELSE 150)
               /\ llm.max_len = llm.n \div 3
        /\ llm.n = 100 => (llm.min_len = 150 /\ llm.max_len = 250)
        /\ llm.n = 3000 => (llm.min_len = 600 /\ llm.max_len = 1000)

C4_Witness ==
    /\ llm.pc = "returned"
    /\ llm.n = 3000
    /\ llm.min_len = 600
    /\ llm.max_len = 1000

----------------------------------------------------------------------------
(* Claims about the store, checked under SpecStore *)

(* C5: upsert idempotence in src/bot/database.py: over any sequence of     *)
(* save_message calls, all persists of one telegram_file_id return the     *)
(* same id, and the table holds exactly one row with that file id, the row *)
(* with the returned id; no duplicate is created.                          *)
C5_UpsertIdempotent ==
    \A f \in FileIds :
        /\ Cardinality(RowsOfFile(db, f)) <= 1
        /\ impl = "bot" =>
               /\ Cardinality(saved[f]) <= 1
               /\ saved[f] = {r.id : r \in RowsOfFile(db, f)}

C5_Witness ==
    /\ impl = "bot"
    /\ ev.op = "save"
    /\ ev.hit
    /\ ev.differs
    /\ saved[ev.file] = {ev.ret}
    /\ Cardinality(RowsOfFile(db, ev.file)) = 1
    /\ Cardinality(db) = 2

(* C6: a save_message that conflicts on telegram_file_id replaces the      *)
(* row's text, summary, sent_at, user_id and username by the new values,   *)
(* leaves its id and telegram_file_id (and every other column) as they     *)
(* were, and leaves every other row unchanged.                             *)
C6_ConflictReplacesFields ==
    [][(ev'.op = "save" /\ ev'.hit) =>
        \E old \in RowsOfFile(db, ev'.file) :
            db' = (db \ {old}) \cup
                  {[old EXCEPT !.text = ev'.text, !.summarized = ev'.summary,
                               !.sent_at = ev'.at, !.user_id = ev'.user,
                               !.username = ev'.username]}]_vars

----------------------------------------------------------------------------
(* Claims about the ingestion pipeline, checked under Spec *)

Saved(t) == voice[t].pc \in {"reply", "done"}

(* C7 as stated: under any interleaving of two pipeline runs for the same  *)
(* telegram_file_id and of any other events, every reachable store state   *)
(* holds at most one record per telegram_file_id, and both runs' replies   *)
(* carry the same record id.                                                *)
C7_SameIdInBothReplies ==
    /\ \A f \in FileIds : Cardinality(RowsOfFile(db, f)) <= 1
    /\ \A t, u \in Tasks :
           (Saved(t) /\ Saved(u) /\ voice[t].file = voice[u].file)
               => voice[t].rid = voice[u].rid

(* C7 amended: every reachable store state holds at most one record per    *)
(* telegram_file_id, and a run that saves while a record of its file is in *)
(* the store gets that record's id, so the replies of two runs for the     *)
(* same file carry the same id provided the record was not deleted between *)
(* the two saves.                                                           *)
C7_SameIdUnlessDeleted ==
    /\ [](\A f \in FileIds : Cardinality(RowsOfFile(db, f)) <= 1)
    /\ [][\A t \in Tasks :
            (voice[t].pc = "process" /\ voice'[t].pc = "reply") =>
                /\ \A old \in RowsOfFile(db, voice[t].file) : voice'[t].rid = old.id
                /\ \A u \in Tasks \ {t} :
                       (Saved(u) /\ voice[u].file = voice[t].file
                            /\ RowsOfId(db, voice[u].rid) # {})
                           => voice'[t].rid = voice[u].rid
                /\ RowsOfFile(db', voice[t].file) \subseteq RowsOfId(db', voice'[t].rid)
                /\ RowsOfFile(db', voice[t].file) # {}]_vars

C7_Witness ==
    /\ Saved("v1") /\ Saved("v2")
    /\ voice["v1"].file = voice["v2"].file
    /\ voice["v1"].rid = voice["v2"].rid
    /\ voice["v1"].rid # NoId
    /\ seq = 2
    /\ Cardinality(RowsOfFile(db, voice["v1"].file)) = 1

----------------------------------------------------------------------------
(* Claims about the delete command, checked under SpecDelete *)

(* What the claims say of a message text, read off the text itself *)
EndsInDigit(t) == t # <<>> /\ t[Len(t)] \in Digits

RECURSIVE TrailingNumberFrom(_, _, _)
TrailingNumberFrom(t, i, weight) ==
    IF i = 0 \/ t[i] \notin Digits THEN 0
    ELSE DigitVal(t[i]) * weight + TrailingNumberFrom(t, i - 1, weight * 10)

TrailingNumber(t) == TrailingNumberFrom(t, Len(t), 1)

(* The last character that is not whitespace is not a digit *)
NoTrailingId(t) ==
    \A i \in 1..Len(t) :
        (t[i] \in Digits) => \E j \in (i + 1)..Len(t) : t[j] \notin Digits \cup Whitespace

(* Characters other than digits and whitespace follow the last digit run *)
JunkAfterLastDigits(t) ==
    /\ \E i \in 1..Len(t) : t[i] \in Digits
    /\ NoTrailingId(t)

SummaryShaped(r) ==
    r.kind = "text" /\ Len(r.text) >= 2 /\ r.text[1] = "#" /\ r.text[2] \in Digits

RECURSIVE LeadingNumberFrom(_, _, _)
LeadingNumberFrom(t, i, acc) ==
    IF i > Len(t) \/ t[i] \notin Digits THEN acc
    ELSE LeadingNumberFrom(t, i + 1, 10 * acc + DigitVal(t[i]))

LeadingNumber(r) == LeadingNumberFrom(r.text, 2, 0)

Deletes(rows) == db' = db \ rows

(* C8: the strategies are tried in fixed priority and the first match      *)
(* wins: a number at the end of the text (with or without '#') names the   *)
(* record whatever the message replies to; without it a replied-to voice   *)
(* message names the record of its file; without either a replied-to text  *)
(* that starts with '#<digits>' names that record.  No record other than   *)
(* the named one is deleted.                                                *)
C8_FirstMatchWins ==
    [][ev'.op = "delete" =>
        /\ EndsInDigit(ev'.text) =>
               /\ Deletes(RowsOfId(db, TrailingNumber(ev'.text)))
               /\ ev'.answer \in {"deleted_id", "not_found"}
               /\ ev'.answer = "deleted_id" => ev'.rid = TrailingNumber(ev'.text)
        /\ (NoTrailingId(ev'.text) /\ ev'.reply.kind = "voice") =>
               /\ Deletes(RowsOfFile(db, ev'.reply.file))
               /\ ev'.answer \in {"deleted", "not_found"}
        /\ (NoTrailingId(ev'.text) /\ SummaryShaped(ev'.reply)) =>
               /\ Deletes(RowsOfId(db, LeadingNumber(ev'.reply)))
               /\ ev'.answer \in {"deleted_id", "not_found"}
               /\ ev'.answer = "deleted_id" => ev'.rid = LeadingNumber(ev'.reply)]_vars

C8_Witness ==
    /\ ev.op = "delete"
    /\ EndsInDigit(ev.text)
    /\ ev.answer = "deleted_id"
    /\ ev.rid = TrailingNumber(ev.text)
    /\ RowsOfId(db, ev.rid) = {}
    /\ \/ /\ ev.reply.kind = "voice"
          /\ \E r \in RowsOfFile(db, ev.reply.file) : r.id # ev.rid
       \/ /\ SummaryShaped(ev.reply)
          /\ LeadingNumber(ev.reply) # ev.rid
          /\ RowsOfId(db, LeadingNumber(ev.reply)) # {}

(* C9: a text with characters other than digits after its last digit run   *)
(* ("/delete #1 x") does not select a record by that number: what happens  *)
(* is decided by the reply alone, and with no reply, or a reply that is    *)
(* neither a voice message nor a text starting with '#<digits>', the       *)
(* answer is "unresolvable" and the store is unchanged.                     *)
C9_TrailingJunkFallsThrough ==
    [][(ev'.op = "delete" /\ JunkAfterLastDigits(ev'.text)) =>
        /\ ev'.reply.kind = "voice" =>
               (Deletes(RowsOfFile(db, ev'.reply.file)) /\ ev'.answer # "deleted_id")
        /\ SummaryShaped(ev'.reply) =>
               Deletes(RowsOfId(db, LeadingNumber(ev'.reply)))
        /\ (ev'.reply.kind # "voice" /\ ~SummaryShaped(ev'.reply)) =>
               (ev'.answer = "unresolvable" /\ db' = db)]_vars

C9_Witness ==
    /\ ev.op = "delete"
    /\ JunkAfterLastDigits(ev.text)
    /\ ev.reply.kind = "none"
    /\ ev.answer = "unresolvable"
    /\ \E i \in 1..Len(ev.text) :
           ev.text[i] \in Digits /\ RowsOfId(db, DigitVal(ev.text[i])) # {}

(* C10: when the strategy that matches names a record the store does not   *)
(* hold ("/delete 9" with no record 9), the answer is "not found", not     *)
(* "unresolvable"; no lower strategy is tried, even when the reply names a *)
(* record that exists, and the store is unchanged.                          *)
C10_NotFoundIsFinal ==
    [][ev'.op = "delete" =>
        LET miss1 == EndsInDigit(ev'.text)
                        /\ RowsOfId(db, TrailingNumber(ev'.text)) = {}
            miss2 == NoTrailingId(ev'.text) /\ ev'.reply.kind = "voice"
                        /\ RowsOfFile(db, ev'.reply.file) = {}
            miss3 == NoTrailingId(ev'.text) /\ SummaryShaped(ev'.reply)
                        /\ RowsOfId(db, LeadingNumber(ev'.reply)) = {}
        IN  (miss1 \/ miss2 \/ miss3) =>
                /\ ev'.answer = "not_found"
                /\ ev'.answer # "unresolvable"
                /\ db' = db]_vars

C10_Witness ==
    /\ ev.op = "delete"
    /\ EndsInDigit(ev.text)
    /\ ev.answer = "not_found"
    /\ RowsOfId(db, TrailingNumber(ev.text)) = {}
    /\ \/ ev.reply.kind = "voice" /\ RowsOfFile(db, ev.reply.file) # {}
       \/ SummaryShaped(ev.reply) /\ RowsOfId(db, LeadingNumber(ev.reply)) # {}

----------------------------------------------------------------------------
(* Claims about the edit dialog, checked under SpecDialog and SpecRace *)

Awaiting(f, p) == GetState(f, p) = WaitingForChoice

Idle(f, p) == GetState(f, p) = NoState

(* The data the dialog of p holds *)
Pending(pd, p) == GetData(pd, DataKey(impl, p))

Referenced(r) == RowsOfId(db, LeadingNumber(r))

(* C11: a text that replies to a message starting with '#<digits>', sent   *)
(* while the sender's dialog is idle, opens the dialog only if the record  *)
(* with that id exists: the dialog then awaits the choice and holds        *)
(* exactly that id and the submitted text; if the record is absent the     *)
(* answer is "not found" and the dialog stays idle.  The store is never    *)
(* changed by a submitted text.                                             *)
C11_EntryOnlyOnExistingRecord ==
    [][ev'.op = "reply_text" =>
        /\ db' = db
        /\ Idle(fsm, ev'.pair) =>
               /\ (SummaryShaped(ev'.reply) /\ Referenced(ev'.reply) # {}) =>
                      /\ ev'.answer = "prompt"
                      /\ Awaiting(fsm', ev'.pair)
                      /\ Pending(pending', ev'.pair) =
                             {[key |-> DataKey(impl, ev'.pair),
                               record_id |-> LeadingNumber(ev'.reply),
                               new_text |-> SubmittedText(ev'.pair)]}
               /\ (SummaryShaped(ev'.reply) /\ Referenced(ev'.reply) = {}) =>
                      /\ ev'.answer = "not_found"
                      /\ Idle(fsm', ev'.pair)
               /\ Awaiting(fsm', ev'.pair) =>
                      (SummaryShaped(ev'.reply) /\ Referenced(ev'.reply) # {})]_vars

C11_Witness ==
    /\ ev.op = "reply_text"
    /\ ev.answer = "not_found"
    /\ SummaryShaped(ev.reply)
    /\ Referenced(ev.reply) = {}
    /\ Idle(fsm, ev.pair)
    /\ \E q \in Pairs \ {ev.pair} :
           /\ Awaiting(fsm, q)
           /\ \E d \in Pending(pending, q) : RowsOfId(db, d.record_id) # {}

(* What the claims say a choice does, in terms of the values the dialog   *)
(* of the pair captured at its entry                                        *)
WithSummary(d, id, t) == {IF r.id = id THEN [r EXCEPT !.summarized = t] ELSE r : r \in d}

WithNote(d, id, t) == {IF r.id = id THEN [r EXCEPT !.note = t] ELSE r : r \in d}

(* The step in which a choice of kind k, made while the dialog awaited it, *)
(* reaches the store                                                        *)
ChoiceActs(k) ==
    /\ \/ ev'.op = "apply"
       \/ ev'.op = "choice" /\ impl = "ptb" /\ Awaiting(fsm, ev'.pair)
    /\ ev'.kind = k

(* The step in which the handler of a choice ends *)
ChoiceEnds(k) ==
    /\ \/ ev'.op = "clear"
       \/ ev'.op = "choice" /\ impl = "ptb" /\ Awaiting(fsm, ev'.pair)
    /\ ev'.kind = k

(* C12: the edit choice, made while the dialog awaits it, sets the summary *)
(* of the record the dialog holds to the text the dialog holds, leaves     *)
(* every other column of that record and every other record as they were,  *)
(* and ends with the dialog idle and its data cleared.                      *)
C12_EditSetsPendingSummary ==
    [][/\ ChoiceActs("edit") =>
              db' = WithSummary(db, hist[ev'.pair].record_id, hist[ev'.pair].new_text)
       /\ ChoiceEnds("edit") =>
              (Idle(fsm', ev'.pair) /\ Pending(pending', ev'.pair) = {})]_vars

(* C13: the note choice, made while the dialog awaits it, sets the note of *)
(* the record the dialog holds to the text the dialog holds, leaves the    *)
(* summary, every other column and every other record as they were, and    *)
(* ends with the dialog idle and its data cleared.                          *)
C13_NoteSetsPendingNote ==
    [][/\ ChoiceActs("note") =>
              db' = WithNote(db, hist[ev'.pair].record_id, hist[ev'.pair].new_text)
       /\ ChoiceEnds("note") =>
              (Idle(fsm', ev'.pair) /\ Pending(pending', ev'.pair) = {})]_vars

(* C14: the cancel choice, made while the dialog awaits it, writes        *)
(* nothing to the store at any step of its handler and ends with the       *)
(* dialog idle and the held text discarded.                                 *)
C14_CancelChangesNothing ==
    [][/\ (ev'.op \in {"choice", "apply", "clear"} /\ ev'.kind = "cancel") => db' = db
       /\ ChoiceEnds("cancel") =>
              (Idle(fsm', ev'.pair) /\ Pending(pending', ev'.pair) = {})]_vars

C14_Witness ==
    /\ ev.op \in {"choice", "clear"}
    /\ ev.kind = "cancel"
    /\ ev.answer # "ignored"
    /\ hist[ev.pair].last = "closed"
    /\ Idle(fsm, ev.pair)
    /\ Pending(pending, ev.pair) = {}
    /\ db = StoredRecords.db

(* C15: a dialog that awaits the choice returns to idle even if the user  *)
(* sends nothing more, once the time of the timeout has come, and the      *)
(* timeout writes nothing to the store.                                     *)
C15_AwaitingLeadsToIdle ==
    /\ Awaiting(fsm, RacingPair) ~> Idle(fsm, RacingPair)
    /\ [][ev'.op = "timeout" => db' = db]_vars

(* C16: an edit or note choice delivered after the time of the timeout   *)
(* of its dialog has come, with no activity in between, changes no record. *)
C16_ExpiredDialogNotActedUpon ==
    [][(/\ ev'.op \in {"choice", "apply"}
        /\ ev'.kind \in {"edit", "note"}
        /\ hist[ev'.pair].last = "expired") => db' = db]_vars

(* C17: a choice is honored once: an edit or note is written to the      *)
(* store only for a dialog that is open and has had no edit or note        *)
(* written yet, also when a button is pressed again or two choice events   *)
(* of the dialog are handled at the same time; once a choice has closed    *)
(* the dialog, later choice events write nothing.                           *)
C17_ChoiceHonoredOnce ==
    [][(/\ ev'.op \in {"choice", "apply"}
        /\ ev'.kind \in {"edit", "note"}
        /\ db' # db) => hist[ev'.pair].last \in {"open", "expired"}]_vars

(* C18: in every reachable state each (chat, user) has at most one        *)
(* dialog awaiting the choice, and that dialog holds a single              *)
(* (record_id, new_text) value.                                             *)
C18_OneLiveDialogPerPair ==
    \A p \in Pairs :
        /\ Cardinality({e \in fsm : e.key = p}) <= 1
        /\ Cardinality(Pending(pending, p)) <= 1

C18_Witness ==
    /\ impl = "bot"
    /\ \A p \in Pairs : Awaiting(fsm, p) /\ Cardinality(Pending(pending, p)) = 1
    /\ \E d1, d2 \in pending : d1.record_id # d2.record_id
    /\ ev.op = "reply_text"
    /\ ev.answer = "prompt"

DialogOps == {"reply_text", "choice", "apply", "clear", "text", "timeout"}

(* C19: the dialogs of different (chat, user) pairs are independent: an   *)
(* entry, a choice, a cancel, another message or a timeout of one pair      *)
(* leaves the state of every other pair, and the (record_id, new_text)     *)
(* held by every other pair awaiting a choice, as they were, also for the  *)
(* same user in another chat, and an edit or                               *)
(* note choice of a pair writes the values captured at that pair's entry.   *)
C19_DialogsIndependent ==
    [][ev'.op \in DialogOps =>
        /\ \A q \in Pairs \ {ev'.pair} :
               /\ GetState(fsm', q) = GetState(fsm, q)
               /\ Awaiting(fsm, q) => Pending(pending', q) = Pending(pending, q)
        /\ (ChoiceActs("edit") /\ db' # db) =>
               db' = WithSummary(db, hist[ev'.pair].record_id, hist[ev'.pair].new_text)
        /\ (ChoiceActs("note") /\ db' # db) =>
               db' = WithNote(db, hist[ev'.pair].record_id, hist[ev'.pair].new_text)]_vars

(* C20: a message that is none of the three choices (a plain text or a     *)
(* reply with text) arriving from a pair whose dialog awaits a choice       *)
(* closes that dialog and changes no record.                                *)
C20_OtherInputClosesDialog ==
    [][(ev'.op \in {"text", "reply_text"} /\ Awaiting(fsm, ev'.pair)) =>
        (Idle(fsm', ev'.pair) /\ db' = db)]_vars

----------------------------------------------------------------------------
(* Claims about the pipeline of on_voice, checked under SpecPipeline *)

Ran(t) == voice[t].pc = "process" /\ voice'[t].pc # "process"

InStages(run, st) == \E i \in 1..Len(run.stages) : run.stages[i] = st

(* C21: when the transcript has fewer than 5 characters the run answers    *)
(* with the recognition-failure notice, makes no call of the summarizer    *)
(* and leaves the table as it was.                                          *)
C21_ShortTranscriptStops ==
    [][\A t \in Tasks :
        (Ran(t) /\ voice'[t].text # NoText
               /\ StrLen(voice'[t].text) < MinTranscriptLen) =>
            /\ ev'.answer = "not_recognized"
            /\ voice'[t].calls = 0
            /\ ~InStages(voice'[t], "summarize")
            /\ db' = db
            /\ seq' = seq]_vars

(* C22: a run that faults while fetching, transcribing, summarizing or    *)
(* saving answers with the generic failure notice, and has written nothing *)
(* to the table.                                                            *)
C22_FaultGivesOneNotice ==
    [][\A t \in Tasks :
        (voice[t].pc \in {"fetch", "process"} /\ voice'[t].pc = "failed") =>
            /\ ev'.task = t
            /\ ev'.answer = "generic_failure"
            /\ ~InStages(voice'[t], "persist")
            /\ db' = db
            /\ seq' = seq]_vars

AllAttemptsFaulted(run) == run.calls > 0 /\ run.faults = run.calls

PipelineStages == <<"fetch", "transcribe", "summarize", "persist", "reply">>

----------------------------------------------------------------------------
(* Pipeline runs next to an edit dialog: the handlers of the package       *)
(* taking voice messages while a user goes through the dialog               *)

InitIsolation == InitPipeline /\ impl \in DialogImpls

NextIsolation ==
    \/ NextPipeline
    \/ \E reply \in DialogReplies : OnReplyToSummaryForEdit(RacingPair, reply)
    \/ \E k \in Choices : OnChoicePtb(RacingPair, k)
    \/ \E k \in Choices : CallbackDispatch("h1", RacingPair, k)
    \/ CallbackApply("h1")
    \/ CallbackClear("h1")

SpecIsolation == InitIsolation /\ [][NextIsolation]_vars

(* Voice messages stored, records deleted, and the '#<id>' of a summary    *)
(* reply used afterwards in a delete command or to open the edit dialog    *)
NextReuse ==
    \/ \E t \in Tasks, f \in FileIds : VoiceStart(t, f, AuthorOf(t))
    \/ \E t \in Tasks : VoiceFetch(t, TRUE)
    \/ \E t \in Tasks : VoiceProcess(t, Text("stt", 100), <<GoodReply>>, TRUE)
    \/ \E t \in Tasks : VoiceReplyStep(t, TRUE)
    \/ \E text \in {Cmd, Cmd \o <<" ", "1">>, Cmd \o <<" ", "#", "2">>},
          reply \in {NoReply} \cup DialogReplies : OnDeleteCommand(text, reply)
    \/ \E reply \in DialogReplies : OnReplyToSummaryForEdit(RacingPair, reply)

SpecReuse == Init /\ [][NextReuse]_vars

Faulted(t) == voice[t].pc # "failed" /\ voice'[t].pc = "failed"

(* C25: a fault in the handling of one voice message changes nothing that  *)
(* another event works with: the step in which a run faults leaves the     *)
(* table, the dialog states and data, the callbacks in flight and the      *)
(* other runs as they were, and no step of a run touches another run's     *)
(* locals or a dialog.                                                      *)
C25_FaultIsolation ==
    [][\A t \in Tasks :
        /\ Faulted(t) =>
               /\ db' = db /\ seq' = seq /\ saved' = saved
               /\ fsm' = fsm /\ pending' = pending /\ cb' = cb /\ hist' = hist
               /\ ev'.op = "voice" /\ ev'.task = t
        /\ voice'[t] # voice[t] =>
               /\ \A u \in Tasks \ {t} : voice'[u] = voice[u]
               /\ fsm' = fsm /\ pending' = pending /\ cb' = cb]_vars

C25_Witness ==
    /\ voice["v1"].pc = "failed"
    /\ voice["v1"].stages = <<>>
    /\ ev.op = "voice" /\ ev.task = "v1" /\ ev.answer = "generic_failure"
    /\ voice["v2"].pc = "reply"
    /\ RowsOfId(db, voice["v2"].rid) # {}
    /\ Awaiting(fsm, RacingPair)
    /\ Pending(pending, RacingPair) # {}

----------------------------------------------------------------------------
(* Claims about a choice without data, checked under SpecChoice *)

MissingData(pd, p) == \A d \in Pending(pd, p) : ~Truthy(d.record_id, d.new_text)

(* C26: an edit or note choice handled while the dialog holds no record id *)
(* or no text is answered with the generic error message and writes        *)
(* nothing; the handler then ends the dialog (python-telegram-bot: in the  *)
(* same step; aiogram: the handler goes on to state.clear(), which leaves  *)
(* the pair without a state).                                               *)
C26_ChoiceWithoutDataFails ==
    [][/\ (ev'.op = "choice" /\ impl = "ptb" /\ ev'.kind \in {"edit", "note"}
              /\ Awaiting(fsm, ev'.pair) /\ MissingData(pending, ev'.pair)) =>
             /\ ev'.answer = "error"
             /\ db' = db
             /\ Idle(fsm', ev'.pair)
       /\ (ev'.op = "apply" /\ ev'.kind \in {"edit", "note"}
              /\ MissingData(pending, ev'.pair)) =>
             /\ ev'.answer = "error"
             /\ db' = db
             /\ \E h \in Callbacks : cb'[h].pc = "edit_text" /\ cb'[h].pair = ev'.pair
       /\ ev'.op = "clear" => Idle(fsm', ev'.pair)]_vars

C26_Witness ==
    /\ impl = "bot"
    /\ ev.op = "apply"
    /\ ev.kind = "edit"
    /\ ev.answer = "error"
    /\ Pending(pending, ev.pair) = {}
    /\ db = StoredRecords.db

C26_ReachedInPtb ==
    /\ impl = "ptb"
    /\ ev.op = "choice"
    /\ ev.kind = "note"
    /\ ev.answer = "error"
    /\ Idle(fsm, ev.pair)

----------------------------------------------------------------------------
(* Claims about /sum, checked under SpecSum *)

(* Four digits, a hyphen, two digits, a hyphen, two digits *)
DateShaped(a) ==
    /\ Len(a) = 10
    /\ a[5] = "-" /\ a[8] = "-"
    /\ \A i \in (1..10) \ {5, 8} : a[i] \in RegexDigits

OnDate(d, a) == {r \in d : SubSeq(IsoFormat(r.sent_at), 1, 10) = a}

MainLines(lines) == {i \in 1..Len(lines) : lines[i].kind = "line"}

(* C27: /sum with an argument of the shape YYYY-MM-DD answers with the     *)
(* records whose timestamp begins with that date, each once, in ascending  *)
(* order of time, each with its id and summary and followed by its note    *)
(* when it has one, or with the empty-result notice when there is no such  *)
(* record; with an argument of another shape it answers with the           *)
(* format-error notice and no record; it never changes the table.          *)
C27_SumByDate ==
    [][ev'.op = "sum" =>
        LET a == ev'.args
            lines == ev'.lines
            M == OnDate(db, a)
            L == MainLines(lines)
        IN  /\ db' = db
            /\ seq' = seq
            /\ (a # NoArgs /\ ~DateShaped(a)) =>
                   (ev'.answer = "format_error" /\ lines = <<>>)
            /\ (a # NoArgs /\ DateShaped(a)) =>
                   /\ ev'.answer = IF M = {} THEN "empty" ELSE "list"
                   /\ {lines[i].record_id : i \in L} = {r.id : r \in M}
                   /\ Cardinality(L) = Cardinality(M)
                   /\ \A i \in L : \E r \in M :
                          /\ r.id = lines[i].record_id
                          /\ lines[i].text = r.summarized
                          /\ lines[i].sent_at = IsoFormat(r.sent_at)
                          /\ IF StrLen(r.note) > 0
                             THEN /\ i < Len(lines)
                                  /\ lines[i + 1].kind = "note"
                                  /\ lines[i + 1].text = r.note
                             ELSE i = Len(lines) \/ lines[i + 1].kind = "line"
                   /\ \A i \in L : \A j \in L : \A ri \in M : \A rj \in M :
                          (i < j /\ ri.id = lines[i].record_id
                                 /\ rj.id = lines[j].record_id) =>
                              ri.sent_at <= rj.sent_at]_vars

C27_Witness ==
    /\ ev.op = "sum"
    /\ ev.answer = "list"
    /\ ev.args = DateOf(2)
    /\ Len(ev.lines) = 3
    /\ ev.lines[1].kind = "line" /\ ev.lines[1].record_id = 2
    /\ ev.lines[2].kind = "note"
    /\ ev.lines[3].kind = "line" /\ ev.lines[3].record_id = 1
    /\ ev.lines[1].sent_at # ev.lines[3].sent_at
    /\ \E r \in db : r.id = 1 /\ r.sent_at = 3

C27_FormatErrorReached ==
    /\ ev.op = "sum"
    /\ ev.answer = "format_error"
    /\ Len(ev.args) = 10
    /\ db # {}

----------------------------------------------------------------------------
(* Claims about the acceptance window, checked under SpecWindow *)

(* C28: an attempt before the final one is accepted if and only if its     *)
(* output length L satisfies min_len*(1-d) <= L <= max_len*(1+d), both     *)
(* ends inclusive, with d = SUMMARY_DEVIATION_PERCENT/100; for an input    *)
(* shorter than 500 characters and the default d = 0.20 the accepted       *)
(* lengths are exactly 120..300.                                           *)
C28_AcceptedIffInWindow ==
    LET k == Len(llm.hist)
        len == AttemptResult(k).core
    IN  (llm.pc \in {"loop", "returned"} /\ k >= 1 /\ k < ClaimedTries) =>
            /\ (llm.pc = "returned") <=> AttemptInWindow(k)
            /\ (llm.n < 500 /\ cfg.dev = 20) =>
                   ((llm.pc = "returned") <=> (120 <= len /\ len <= 300))

----------------------------------------------------------------------------
(* Claims about the number of backend calls, checked under SpecTriesFair *)

CallEnded == llm.pc \in {"returned", "raised"}

(* C29: summarize always terminates, with at least 1 and at most           *)
(* max(1, max_tries) backend calls whatever the backend does; with         *)
(* max_tries configured as 0 or as a negative number it makes exactly one  *)
(* backend call.                                                           *)
C29_TerminatesWithinTries ==
    /\ [](llm.pc = "loop" => Len(llm.hist) < ClaimedTries)
    /\ [](CallEnded =>
             /\ Len(llm.hist) >= 1
             /\ Len(llm.hist) <= ClaimedTries
             /\ cfg.tries <= 0 => Len(llm.hist) = 1)
    /\ (llm.pc = "loop") ~> CallEnded

C29_Witness ==
    /\ CallEnded
    /\ cfg.tries = -1
    /\ Len(llm.hist) = 1
    /\ ~llm.hist[1].fault
    /\ llm.summary.core = 1201

----------------------------------------------------------------------------
(* Claims about the degraded-result signal, checked under SpecWindow *)

(* C30: the final attempt is accepted whatever it produced; the            *)
(* degraded-result signal is emitted exactly once in a call when the       *)
(* returned summary is outside the allowed window, never when it is        *)
(* inside, never while the loop still runs, and the returned value is the  *)
(* last attempt's result with or without the signal.                       *)
C30_SignalIffOutside ==
    LET k == Len(llm.hist)
    IN  /\ llm.pc = "loop" => llm.warned = 0
        /\ llm.pc = "returned" =>
               /\ llm.summary = AttemptResult(k)
               /\ AttemptInWindow(k) => llm.warned = 0
               /\ ~AttemptInWindow(k) => (llm.warned = 1 /\ k = ClaimedTries)

----------------------------------------------------------------------------
(* Claims about a dialog entered again, checked under SpecReplace *)

(* C31: an edit trigger for an existing record that arrives while the      *)
(* dialog of the same (chat, user) awaits the choice replaces the dialog   *)
(* without a word: the dialog still awaits the choice, it holds the record *)
(* id and the text of the second trigger and nothing of the first, and the *)
(* table is as it was.                                                      *)
C31_SecondTriggerReplaces ==
    [][(/\ ev'.op = "reply_text"
        /\ Awaiting(fsm, ev'.pair)
        /\ SummaryShaped(ev'.reply)
        /\ Referenced(ev'.reply) # {})
       => (/\ ev'.answer = "prompt"
           /\ Awaiting(fsm', ev'.pair)
           /\ Pending(pending', ev'.pair)
                  = {[key |-> DataKey(impl, ev'.pair),
                      record_id |-> LeadingNumber(ev'.reply),
                      new_text |-> ev'.text]}
           /\ db' = db)]_vars

----------------------------------------------------------------------------
(* Claims about /delete next to a dialog, checked under SpecReplace *)

(* C32: a delete command names one record or fails: when it succeeds,      *)
(* exactly one row, the named one, leaves the table and every other row is *)
(* as it was; when it fails the table is as it was; in both cases every    *)
(* dialog's state and held data, and the callbacks in flight, are as they  *)
(* were.                                                                    *)
C32_DeleteRemovesOneRecord ==
    [][ev'.op = "delete" =>
        /\ ev'.answer \in {"deleted_id", "deleted", "not_found", "unresolvable"}
        /\ db' \subseteq db
        /\ ev'.answer \in {"deleted_id", "deleted"} => Cardinality(db \ db') = 1
        /\ ev'.answer = "deleted_id" => db \ db' = RowsOfId(db, ev'.rid)
        /\ ev'.answer = "deleted" => db \ db' = RowsOfFile(db, ev'.reply.file)
        /\ ev'.answer \in {"not_found", "unresolvable"} => db' = db
        /\ fsm' = fsm
        /\ pending' = pending
        /\ cb' = cb]_vars

C32_Witness ==
    /\ ev.op = "delete"
    /\ ev.answer = "deleted_id"
    /\ ev.rid = 1
    /\ RowsOfId(db, 1) = {}
    /\ RowsOfId(db, 2) # {}
    /\ Awaiting(fsm, RacingPair)
    /\ \E d \in Pending(pending, RacingPair) : d.record_id = 1

----------------------------------------------------------------------------
(* Claims about the bounds of the summary, checked under SpecWindow *)

(* C33: for every length n >= 0 of the text, 150 <= min_len <= max_len,    *)
(* and with a tolerance from 0 to 100 percent min_allowed <= max_allowed,  *)
(* as the formula gives them and as summarize computes them.               *)
C33_WindowWellFormed ==
    llm.pc # "idle" =>
        /\ 150 <= llm.min_len
        /\ llm.min_len <= llm.max_len
        /\ llm.min_len * (100 - cfg.dev) <= llm.max_len * (100 + cfg.dev)
        /\ AllowedExplored[cfg.dev][llm.min_len].min
               <= AllowedExplored[cfg.dev][llm.max_len].max

C33_Witness ==
    /\ llm.pc = "returned"
    /\ llm.n = 500
    /\ cfg.dev = 0
    /\ llm.min_len = 150
    /\ llm.max_len = 166
    /\ llm.summary.core = 128
    /\ llm.warned = 1

----------------------------------------------------------------------------
(* Claims about faulted attempts, checked under SpecLLM *)

AllFaulted == \A i \in 1..Len(llm.hist) : llm.hist[i].fault

(* C34: in src/bot/llm.py with the default tolerance of 20 percent, the    *)
(* apology string of 58 characters is shorter than the lower allowed bound *)
(* whatever the length of the text, so a faulted attempt ends the call     *)
(* only when it is the last one; when every attempt faults, summarize has  *)
(* called the backend exactly max_tries times (at least once), returns the *)
(* apology string and has emitted the degraded-result signal once.         *)
C34_ApologyNeverInWindow ==
    (impl = "bot" /\ cfg.dev = 20 /\ llm.pc # "idle") =>
        LET k == Len(llm.hist)
        IN  /\ 58 * 100 < llm.min_len * (100 - cfg.dev)
            /\ 58 < AllowedExplored[cfg.dev][llm.min_len].min
            /\ llm.pc # "raised"
            /\ (llm.pc = "returned" /\ llm.hist[k].fault) => k = ClaimedTries
            /\ (llm.pc = "returned" /\ AllFaulted) =>
                   /\ k = ClaimedTries
                   /\ llm.summary = [kind |-> "apology", core |-> 58, pad |-> 0]
                   /\ llm.warned = 1

C34_Witness ==
    /\ impl = "bot"
    /\ cfg.dev = 20
    /\ cfg.tries = 2
    /\ ~cfg.use_local
    /\ llm.pc = "returned"
    /\ Len(llm.hist) = 2
    /\ AllFaulted
    /\ llm.summary.kind = "apology"
    /\ llm.warned = 1

----------------------------------------------------------------------------
(* Claims about a voice message stored again, checked under SpecStore *)

(* C35: save_message of src/bot/database.py for a telegram_file_id that    *)
(* already has a record keeps that record, under its id and with the note  *)
(* it had, and sets its summary to the one passed in, also when the        *)
(* summary it had was a text the user chose in the edit dialog.            *)
C35_ResaveKeepsNote ==
    [][(impl = "bot" /\ ev'.op = "save" /\ ev'.hit) =>
           /\ Cardinality(RowsOfFile(db', ev'.file)) = 1
           /\ \A old \in RowsOfFile(db, ev'.file), new \in RowsOfFile(db', ev'.file) :
                  /\ new.id = old.id
                  /\ new.note = old.note
                  /\ new.summarized = ev'.summary
           /\ \A r \in db : r.telegram_file_id # ev'.file => r \in db']_vars

C35_Witness ==
    /\ impl = "bot"
    /\ ev.op = "save"
    /\ ev.hit
    /\ \E w \in ev.was : w.kind = "user"
    /\ \E r \in RowsOfFile(db, ev.file) :
           /\ r.note.kind = "user"
           /\ r.summarized = ev.summary
           /\ r.summarized.kind = "gen"

----------------------------------------------------------------------------
(* Claims about record ids over time, checked under SpecReuse *)

(* Every id save_message has returned so far *)
AssignedIds == UNION {saved[f] : f \in FileIds}

StaleIds == AssignedIds \ {r.id : r \in db}

(* C36: the table's id is AUTOINCREMENT, so ids are never reused: a record *)
(* inserted by save_message gets an id greater than every id assigned      *)
(* before, and an id once returned for a voice message never names the     *)
(* record of another one.  A '#<id>' of a deleted record, given to /delete *)
(* (in the command or in the replied-to summary) or in the message that an *)
(* edit trigger replies to, is answered "not found": nothing is deleted    *)
(* and no dialog is opened.                                                 *)
C36_IdsNeverReused ==
    [][/\ \A new \in db' : RowsOfId(db, new.id) = {} =>
              \A i \in AssignedIds \cup {r.id : r \in db} : new.id > i
       /\ \A f \in FileIds : \A i \in saved'[f] : \A r \in RowsOfId(db', i) :
              r.telegram_file_id = f
       /\ (ev'.op = "delete" /\ EndsInDigit(ev'.text)
              /\ TrailingNumber(ev'.text) \in StaleIds) =>
              ev'.answer = "not_found" /\ db' = db
       /\ (ev'.op = "delete" /\ ~EndsInDigit(ev'.text) /\ SummaryShaped(ev'.reply)
              /\ LeadingNumber(ev'.reply) \in StaleIds) =>
              ev'.answer = "not_found" /\ db' = db
       /\ (ev'.op = "reply_text" /\ SummaryShaped(ev'.reply)
              /\ LeadingNumber(ev'.reply) \in StaleIds) =>
              /\ ev'.answer = "not_found"
              /\ db' = db
              /\ fsm' = fsm
              /\ pending' = pending]_vars

C36_Witness ==
    /\ ev.op = "reply_text"
    /\ ev.answer = "not_found"
    /\ LeadingNumber(ev.reply) = 1
    /\ saved["f1"] = {1, 2}
    /\ \E r \in db : r.id = 2 /\ r.telegram_file_id = "f1"
    /\ RowsOfId(db, 1) = {}

----------------------------------------------------------------------------
(* Claims about a choice made after the dialog was entered again, checked  *)
(* under SpecReplace                                                        *)

(* C37: in src/bot a choice button names no record: the edit or note       *)
(* callback writes the text of the latest trigger of its (chat, user) to   *)
(* the record of that trigger, which is what the dialog holds; a record    *)
(* named by an earlier trigger that was replaced is left as it is.         *)
C37_ChoiceAppliesHeldData ==
    [][(impl = "bot" /\ ev'.op = "apply" /\ ev'.kind \in {"edit", "note"}) =>
           /\ hist[ev'.pair].last = "open"
           /\ Pending(pending, ev'.pair) =
                  {[key |-> DataKey(impl, ev'.pair),
                    record_id |-> hist[ev'.pair].record_id,
                    new_text |-> hist[ev'.pair].new_text]}
           /\ db' = IF ev'.kind = "edit"
                    THEN WithSummary(db, hist[ev'.pair].record_id, hist[ev'.pair].new_text)
                    ELSE WithNote(db, hist[ev'.pair].record_id, hist[ev'.pair].new_text)
           /\ \A r \in db : r.id # hist[ev'.pair].record_id => r \in db']_vars

C37_Witness ==
    /\ impl = "bot"
    /\ ev.op = "apply"
    /\ ev.kind = "edit"
    /\ ev.answer = "updated"
    /\ \E r \in RowsOfId(db, 2) : r.summarized = Text("user", 8)
    /\ \E r \in RowsOfId(db, 1) : r.summarized = Text("gen", 120) /\ r.note = NoText

----------------------------------------------------------------------------
(* Claims about a choice made after the record was deleted, checked under  *)
(* SpecDialog                                                               *)

(* The record the dialog of p captured at its entry is no longer stored *)
HeldRecordDeleted(p) ==
    hist[p].record_id # NoId /\ RowsOfId(db, hist[p].record_id) = {}

(* C38: when the record a dialog captured at its entry has been deleted    *)
(* before the edit or note choice is made, the choice is answered "not     *)
(* found" and the store is left as it is; the handler of the choice ends   *)
(* with the dialog idle and its data cleared.                               *)
C38_ChoiceOnDeletedRecord ==
    [][\A k \in {"edit", "note"} :
           /\ (ChoiceActs(k) /\ HeldRecordDeleted(ev'.pair)) =>
                  (ev'.answer = "not_found" /\ db' = db)
           /\ ChoiceEnds(k) =>
                  (Idle(fsm', ev'.pair) /\ Pending(pending', ev'.pair) = {})]_vars

----------------------------------------------------------------------------
(* Claims about a fault of the summary reply, checked under SpecPipeline *)

(* The step in which the summary reply of run t faults *)
ReplyFaults(t) == voice[t].pc = "reply" /\ voice'[t].pc = "failed"

Persisted(run) == Cardinality({i \in 1..Len(run.stages) : run.stages[i] = "persist"})

(* C39: in the handlers of the package a fault of the summary reply, which *)
(* comes after save_message has succeeded, is answered with the generic    *)
(* failure notice and takes nothing back: the store is the same after the *)
(* fault as before it, the record of the run being in it.  The store       *)
(* changes only in the persist step of a run, and a run takes that step at *)
(* most once.                                                               *)
C39_ReplyFaultKeepsRecord ==
    [][(impl # "legacy") =>
           /\ \A t \in Tasks : ReplyFaults(t) =>
                  /\ ev'.op = "voice" /\ ev'.task = t
                  /\ ev'.answer = "generic_failure"
                  /\ db' = db
                  /\ \E r \in RowsOfId(db', voice[t].rid) :
                         r.telegram_file_id = voice[t].file
           /\ db' # db =>
                  \E t \in Tasks :
                      /\ Persisted(voice[t]) = 0
                      /\ voice'[t].stages = voice[t].stages \o <<"transcribe", "summarize", "persist">>
                      /\ \A u \in Tasks \ {t} : voice'[u] = voice[u]
           /\ \A t \in Tasks : Persisted(voice'[t]) <= 1]_vars

C39_Witness ==
    \E t \in Tasks :
        /\ impl = "bot"
        /\ voice[t].pc = "failed"
        /\ Persisted(voice[t]) = 1
        /\ ev.op = "voice" /\ ev.task = t /\ ev.answer = "generic_failure"
        /\ \E r \in RowsOfId(db, voice[t].rid) :
               r.telegram_file_id = voice[t].file /\ r.summarized = voice[t].summary

====
